---------------------------- MODULE Spec2Model ----------------------------
(***************************************************************************)
(* A model of recent-messages2: the sharded message store (src/db.rs),     *)
(* the IRC ingestion pipeline (src/irc_listener.rs) and the web handlers   *)
(* that read, ignore and purge channels (src/web/*.rs).                    *)
(*                                                                         *)
(* Time is counted in ticks; TicksPerMs ticks make one millisecond, so a   *)
(* DateTime with sub-millisecond precision is a tick count and a           *)
(* millisecond timestamp is a tick count divided by TicksPerMs.            *)
(***************************************************************************)
EXTENDS Integers, Sequences, FiniteSets, TLC

(* ------------------------------ bounds -------------------------------- *)
\* ticks per millisecond (the sub-millisecond resolution of the clock)
TicksPerMs == 2
\* the clock stops advancing at MaxTime ticks
MaxTime == 5
\* most shard databases configured (shard_dbs.len() ranges over 0..MaxShards)
MaxShards == 1
\* most messages ever received from the IRC stream in one behaviour
MaxMessages == 3
MaxStored == 3

(* --------------------------- configuration ---------------------------- *)
\* config.app.max_buffer_size, scaled down
max_buffer_size == 2
\* config.app.messages_expire_after, in ticks (two milliseconds)
messages_expire_after == 2 * TicksPerMs
channels_expire_after == 2 * TicksPerMs
\* the chunk capacity of the batch worker
max_chunk_size == 10000
forwarder_max_chunk_size == 2
request_timeout == TicksPerMs
\* config.web.recheck_twitch_auth_after and config.web.sessions_expire_after
recheck_twitch_auth_after == TicksPerMs
sessions_expire_after == 2 * TicksPerMs
\* the requests followed under with_authorization
MaxRequests == 3
\* the requests followed of each of POST /auth/extend and POST /auth/revoke
MaxTokenRequests == 2

\* channel logins, with the bytes of their UTF-8 encoding
Channels == {"forsen", "xqc"}
Bytes(channel_login) ==
    CASE channel_login = "forsen" -> <<102, 111, 114, 115, 101, 110>>
      [] channel_login = "xqc" -> <<120, 113, 99>>

\* Option::None for a number or a time
None == 0 - 1

(* ------------------------ 32-bit arithmetic --------------------------- *)
(* A u32 is a pair <<hi, lo>> of 16-bit halves, so that no intermediate    *)
(* value leaves the range of the model checker's integers.                 *)
RECURSIVE Pow2(_)
Pow2(n) == IF n = 0 THEN 1 ELSE 2 * Pow2(n - 1)

Half == 256 * 256

RECURSIVE XorBits(_, _, _)
XorBits(a, b, n) ==
    IF n = 0 THEN 0
    ELSE (((a % 2) + (b % 2)) % 2) + 2 * XorBits(a \div 2, b \div 2, n - 1)

U32(hi, lo) == <<hi, lo>>
Xor32(a, b) == U32(XorBits(a[1], b[1], 16), XorBits(a[2], b[2], 16))

Add32(a, b) ==
    U32((a[1] + b[1] + ((a[2] + b[2]) \div Half)) % Half, (a[2] + b[2]) % Half)

\* the low 16 bits of the product of two 16-bit numbers
MulLo16(a, b) == ((a * (b % 256)) + ((a * (b \div 256)) % 256) * 256) % Half

\* the full 32-bit product of two 16-bit numbers
Mul16(a, b) ==
    LET x == a * (b % 256)
        y == a * (b \div 256)
        low == x + (y % 256) * 256
    IN  U32(((y \div 256) + (low \div Half)) % Half, low % Half)

\* wrapping multiplication (u32::wrapping_mul)
Mul32(a, b) ==
    LET p == Mul16(a[2], b[2])
    IN  U32((p[1] + MulLo16(a[1], b[2]) + MulLo16(a[2], b[1])) % Half, p[2])

\* rotate_left by r, 0 < r < 16
Rotl32(a, r) ==
    U32(((a[1] * Pow2(r)) % Half) + (a[2] \div Pow2(16 - r)),
        ((a[2] * Pow2(r)) % Half) + (a[1] \div Pow2(16 - r)))

\* logical shift right by r, 0 < r <= 16
Shr32(a, r) ==
    U32(a[1] \div Pow2(r), (a[2] \div Pow2(r)) + (a[1] % Pow2(r)) * Pow2(16 - r))

\* a u32 modulo a small positive m
Mod32(a, m) == (((a[1] % m) * (Half % m)) + (a[2] % m)) % m

(* ------------------------ murmur3_32 (seed 0) ------------------------- *)
C1 == U32(52382, 11601)      \* 0xcc9e2d51
C2 == U32(7047, 13715)       \* 0x1b873593
C3 == U32(58964, 27492)      \* 0xe6546b64
F1 == U32(34283, 51819)      \* 0x85ebca6b
F2 == U32(49842, 44597)      \* 0xc2b2ae35

\* the little-endian u32 of up to four bytes, bytes[i..i+n-1]
LeWord(bytes, i, n) ==
    U32((IF n >= 3 THEN bytes[i + 2] ELSE 0) + 256 * (IF n >= 4 THEN bytes[i + 3] ELSE 0),
        (IF n >= 1 THEN bytes[i] ELSE 0) + 256 * (IF n >= 2 THEN bytes[i + 1] ELSE 0))

MixK(k) == Mul32(Rotl32(Mul32(k, C1), 15), C2)

RECURSIVE MurmurBlocks(_, _, _)
MurmurBlocks(bytes, i, h) ==
    IF i + 3 > Len(bytes) THEN h
    ELSE MurmurBlocks(bytes, i + 4,
            Add32(Mul32(Rotl32(Xor32(h, MixK(LeWord(bytes, i, 4))), 13), U32(0, 5)), C3))

Fmix32(h0) ==
    LET h1 == Xor32(h0, Shr32(h0, 16))
        h2 == Mul32(h1, F1)
        h3 == Xor32(h2, Shr32(h2, 13))
        h4 == Mul32(h3, F2)
    IN  Xor32(h4, Shr32(h4, 16))

murmur3_32(bytes, seed) ==
    LET n == Len(bytes)
        tail == n % 4
        h1 == MurmurBlocks(bytes, 1, seed)
        h2 == IF tail = 0 THEN h1
              ELSE Xor32(h1, MixK(LeWord(bytes, n - tail + 1, tail)))
    IN  Fmix32(Xor32(h2, U32(0, n)))

\* the hash of every channel login, computed once
hash32 == [c \in Channels |-> murmur3_32(Bytes(c), U32(0, 0))]

(* ------------------------------ state --------------------------------- *)
VARIABLES
    shard_dbs_len,   \* DataStorage.shard_dbs.len(): the number of shard databases
    now,             \* the wall clock, in ticks
    message,         \* message[p]: the rows of table `message` in partition p
    next_source,     \* the number of messages received from the IRC stream so far
    vacuum_passes,   \* the run_message_vacuum tasks in progress, oldest first
    vacuumed,        \* the last successful vacuum DELETE: channel, time, rows before it
    fetched,         \* the value get_messages returned to the step that just ran
    wanted,          \* the channels the IRC client wants to be joined to
    joined,          \* the channels the IRC server has the client joined to
    rx,              \* the internal queue between forward worker and chunk worker
    chunk_worker,    \* the chunk worker: where it is, and the chunk it holds
    insert_tasks,    \* the INSERT tasks append_messages has spawned
    channel,         \* the rows of table `channel` (main partition)
    user_login,      \* the channel of the user whose requests are followed, "" before the first
    ignore_req,      \* the POST /ignored request in progress, or the last one
    delayed_purges,  \* the spawned tasks that purge again after three seconds
    purged_twice,    \* the delayed purge of the last POST /ignored has deleted
    get_req,         \* the GET /recent-messages request in progress, or the last one
    shutdown_signal, \* the shared CancellationToken: is it cancelled
    tasks,           \* the long-running tasks: "running" or "exited"
    join_parter,     \* the join/part loop: where it is, how its last query went
    main_loop,       \* main: the futures its select! awaits, exit_code, the exit
    stored_messages, \* export_stored_messages: the list it is given
    query_options,   \* export_stored_messages: the options it is given
    frames,          \* MessageContainer.frames after the replay pass
    exported_messages, \* the lines export_stored_messages returned
    reexported_messages, \* the lines it returned for its own lines, parsed again
    purge_req, \* the POST /purge request of the user
    metrics, \* the counters of the store and the DELETEs of the vacuum passes
    http_req, \* a request under the timeout middleware and its handler
    http_request_timeouts, \* HTTP_REQUEST_TIMEOUTS
    run_state, \* the value of the watch channel of the shutdown notices
    shutdown_sender, \* ShutdownNoticeSender: the values it sent, its calls
    shutdown_receiver, \* ShutdownNoticeReceiver
    compared, \* the last comparison made of run states or notices
    cloned_receiver, \* a clone of the ShutdownNoticeReceiver, once made
    user_authorization, \* the row of table user_authorization of the user
    auth_req, \* the request under with_authorization, or the last one
    token_req \* token_req[op]: the POST /auth/extend and POST /auth/revoke requests

storeVars == <<shard_dbs_len, now, message, next_source, vacuum_passes, vacuumed, fetched>>
ircVars == <<wanted, joined, rx, chunk_worker, insert_tasks>>
webVars == <<channel, user_login, ignore_req, delayed_purges, purged_twice, get_req>>
taskVars == <<shutdown_signal, tasks, join_parter, main_loop>>
exportVars == <<stored_messages, query_options, frames, exported_messages,
                reexported_messages>>
shutdownVars == <<run_state, shutdown_sender, shutdown_receiver, compared, cloned_receiver>>
authVars == <<user_authorization, auth_req, token_req>>
requestVars == <<purge_req, http_req, http_request_timeouts, shutdownVars, authVars>>
handlerVars == <<requestVars, metrics>>
vars == <<storeVars, ircVars, webVars, taskVars, exportVars, handlerVars>>

Partitions == 0 .. MaxShards

\* no vacuum DELETE to speak of, no value returned
NoVacuum == [channel_login |-> "", now |-> None, before |-> {}]
NoFetch == [channel_login |-> "", limit |-> None, before |-> None, after |-> None,
            messages |-> <<>>]

\* no row in table `channel`; no request yet
NoRow == [present |-> FALSE, last_access |-> None, ignored_at |-> None]
NoIgnoreReq == [pc |-> "idle", should_be_ignored |-> FALSE, log |-> <<>>, response |-> 0]
\* the counters are not followed; a pass that has not listed its channels
NoMetrics == [on |-> FALSE, passes |-> <<>>, messages_vacuumed |-> <<>>,
              messages_stored |-> <<>>]
NoPass == [selected |-> <<>>, issued |-> <<>>]
\* RunState::Run, RunState::Shutdown(notice), ShutdownNotice { graceful }
Run == [state |-> "Run"]
ShutdownNotice(graceful) == [graceful |-> graceful]
Shutdown(notice) == [state |-> "Shutdown", notice |-> notice]
ShutdownNotices == {ShutdownNotice(graceful) : graceful \in BOOLEAN}
RunStates == {Run} \cup {Shutdown(notice) : notice \in ShutdownNotices}
\* Option::None of last_returned_value; nothing compared yet
NoNotice == [none |-> TRUE]
NotCompared == [type |-> ""]
\* the receiver has not been cloned
NotCloned == [cloned |-> FALSE, changed |-> FALSE, last_returned_value |-> NoNotice,
              returned |-> <<>>]
NoHttpReq == [pc |-> "idle", deadline |-> 0, awaits |-> 0, completed_at |-> None,
              responses |-> <<>>, timeouts_before |-> 0]
NoPurgeReq == [pc |-> "idle", result |-> "", response |-> 0]
\* the row create_token stored for the user at time 0: the token pair Twitch
\* issued (pairs are numbered in the order Twitch issues them)
StoredAuthorization ==
    [twitch_token |-> 0, twitch_authorization_last_validated |-> 0,
     valid_until |-> sessions_expire_after]
\* the table user_authorization without the row of the user
NoUserAuthorization == [deleted |-> TRUE]
\* get_user_authorization: the token has a row and it has not expired
found(row, access_token) ==
    IF access_token # "stored" \/ row = NoUserAuthorization THEN FALSE
    ELSE row.valid_until >= now
\* the two endpoints behind with_authorization that change the row
TokenOps == {"extend", "revoke"}
NoTokenReq == [pc |-> "idle", authorization |-> NoUserAuthorization, overlaps |-> FALSE,
               rows |-> 0, response |-> 0, error |-> "", error_code |-> "",
               requests |-> 0]
\* no request yet under with_authorization; upstream lists the calls made of
\* the Twitch API for the request, with their outcomes
NoAuthReq == [pc |-> "idle", access_token |-> "", authorization |-> StoredAuthorization,
              pre_validation_auth |-> StoredAuthorization,
              try_refresh_if_invalid |-> TRUE, started |-> 0, upstream |-> <<>>,
              next_ran |-> FALSE, response |-> 0, error |-> "", error_code |-> "",
              requests |-> 0]
NoGetReq == [pc |-> "idle", task |-> "idle", ignored |-> FALSE,
             is_confirmed_joined |-> FALSE, stored_messages |-> <<>>,
             log |-> <<>>, response |-> 0, error |-> "", error_code |-> ""]

\* the tasks that race their loop against the cancellation
TaskNames == {"forward_worker", "chunk_worker", "channel_join_parter", "vacuum_worker"}

\* GetRecentMessagesQueryOptions::default, as far as the export reads it
DefaultOptions == [hide_moderation_messages |-> FALSE,
                   hide_moderated_messages |-> FALSE,
                   clearchat_to_notice |-> FALSE]

\* export_stored_messages has not returned
NoExport == <<[line |-> "none"]>>

(* --------------------------- pure functions --------------------------- *)
Min(a, b) == IF a < b THEN a ELSE b

\* DateTime::trunc_subsecs(3): drop everything below the millisecond
trunc_subsecs(t) == t - (t % TicksPerMs)

\* DateTime::timestamp_millis and its inverse Utc.timestamp_millis
timestamp_millis(t) == t \div TicksPerMs
from_millis(ms) == ms * TicksPerMs

\* mutant: the shards alone take message rows
channel_to_partition_id_shards_only(channel_login) ==
    IF shard_dbs_len > 0 THEN 1 + Mod32(hash32[channel_login], shard_dbs_len) ELSE 0

channel_to_partition_id(channel_login) ==
    Mod32(hash32[channel_login], shard_dbs_len + 1)

\* the rows of a channel in a partition's message table
ChannelRows(partition_id, channel_login) ==
    {r \in message[partition_id] : r.channel_login = channel_login}

\* mutant: the rows are ordered by time_received, oldest first
RECURSIVE OrderByTime_ascending(_)
OrderByTime_ascending(rows) ==
    IF rows = {} THEN {<<>>}
    ELSE UNION { { <<r>> \o s : s \in OrderByTime_ascending(rows \ {r}) } :
                 r \in {x \in rows : \A y \in rows : x.time_received <= y.time_received} }

\* ORDER BY time_received DESC: every order the database may return the rows in
RECURSIVE OrderByTimeDesc(_)
OrderByTimeDesc(rows) ==
    IF rows = {} THEN {<<>>}
    ELSE UNION { { <<r>> \o s : s \in OrderByTimeDesc(rows \ {r}) } :
                 r \in {x \in rows : \A y \in rows : y.time_received <= x.time_received} }

\* mutant: the rows are returned as the query gave them, newest first
Reverse_forgotten(s) == s

Take(s, k) == SubSeq(s, 1, Min(k, Len(s)))
Reverse(s) == [i \in 1 .. Len(s) |-> s[Len(s) + 1 - i]]
StoredMessage(row) ==
    [time_received |-> row.time_received, message_source |-> row.message_source]

\* the LIMIT of get_messages
get_messages_limit(limit) ==
    IF limit = None THEN max_buffer_size ELSE Min(limit, max_buffer_size)

\* get_messages: the lists the query may return, oldest first
get_messages(channel_login, limit) ==
    LET partition_id == channel_to_partition_id(channel_login)
    IN  { [i \in 1 .. Len(Reverse(Take(s, get_messages_limit(limit)))) |->
              StoredMessage(Reverse(Take(s, get_messages_limit(limit)))[i])] :
          s \in OrderByTimeDesc(ChannelRows(partition_id, channel_login)) }

\* mutant: the cutoff is the row after the max_buffer_size newest
vacuum_offset_one_more == max_buffer_size

\* the OFFSET parameter of the vacuum DELETE
vacuum_offset == max_buffer_size - 1

\* SELECT time_received ... ORDER BY time_received DESC OFFSET $2 LIMIT 1
\* (None when the subquery returns no row)
vacuum_cutoff(rows) ==
    LET s == CHOOSE o \in OrderByTimeDesc(rows) : TRUE
    IN  IF Len(s) > vacuum_offset THEN s[vacuum_offset + 1].time_received ELSE None

\* mutant: the DELETE trims by size alone
vacuum_deleted_size_only(rows, t) ==
    {r \in rows : /\ vacuum_cutoff(rows) # None
                  /\ r.time_received < vacuum_cutoff(rows)}

\* the rows the vacuum DELETE removes from a channel's rows at time t
vacuum_deleted(rows, t) ==
    {r \in rows : \/ /\ vacuum_cutoff(rows) # None
                     /\ r.time_received < vacuum_cutoff(rows)
                  \/ r.time_received < t - messages_expire_after}

\* SELECT DISTINCT channel_login FROM message
channels_with_messages(partition_id) ==
    {r.channel_login : r \in message[partition_id]}

\* every order a set of channels may be listed in
RECURSIVE Orders(_)
Orders(S) ==
    IF S = {} THEN {<<>>}
    ELSE UNION { { <<c>> \o s : s \in Orders(S \ {c}) } : c \in S }

RemoveAt(s, i) == SubSeq(s, 1, i - 1) \o SubSeq(s, i + 1, Len(s))

\* the counters after an update, in the specifications that follow them
Metered(update) == IF metrics.on THEN update ELSE metrics

(* ------------------------------ actions ------------------------------- *)
\* time passes
Tick ==
    /\ now < MaxTime
    /\ now' = now + 1
    /\ fetched' = NoFetch
    /\ UNCHANGED <<taskVars, exportVars, handlerVars, shard_dbs_len, message, next_source, vacuum_passes, vacuumed, ircVars, webVars>>

\* append_messages_partition: one multi-row INSERT into a partition
append_messages_partition(partition_id, messages) ==
    /\ message' = [message EXCEPT ![partition_id] =
                      @ \cup {messages[i] : i \in 1 .. Len(messages)}]
    /\ vacuumed' = IF /\ vacuumed # NoVacuum
                      /\ \E i \in 1 .. Len(messages) :
                            messages[i].channel_login = vacuumed.channel_login
                   THEN NoVacuum ELSE vacuumed
    /\ metrics' = Metered([metrics EXCEPT
                      !.messages_stored[partition_id] = @ + Len(messages)])

\* a message of channel_login comes in, is stamped by the forward worker and
\* stored by the chunk worker's INSERT
StoreMessage(channel_login) ==
    /\ next_source < MaxMessages
    /\ next_source' = next_source + 1
    /\ append_messages_partition(channel_to_partition_id(channel_login),
          << [channel_login |-> channel_login,
              time_received |-> trunc_subsecs(now),
              message_source |-> next_source + 1] >>)
    /\ fetched' = NoFetch
    /\ UNCHANGED <<taskVars, exportVars, requestVars, shard_dbs_len, now, vacuum_passes, ircVars, webVars>>

\* run_task_vacuum_old_messages: a tick spawns one pass per partition. A pass
\* spreads its DELETEs over less than vacuum_messages_every, and the passes of
\* one tick are taken to have ended when the next tick comes.
VacuumTick ==
    /\ tasks["vacuum_worker"] = "running"
    /\ vacuum_passes = <<>>
    /\ vacuum_passes' = vacuum_passes \o
          [i \in 1 .. shard_dbs_len + 1 |->
              [partition_id |-> i - 1, pc |-> "start", channels |-> <<>>]]
    /\ fetched' = NoFetch
    /\ metrics' = Metered([metrics EXCEPT !.passes = [p \in Partitions |-> NoPass]])
    /\ UNCHANGED <<taskVars, exportVars, requestVars, shard_dbs_len, now, message, next_source, vacuumed, ircVars, webVars>>

\* run_message_vacuum, up to the loop: the connection or the SELECT DISTINCT
\* fails and the pass is skipped, or the channels are listed
VacuumSelect(i) ==
    /\ vacuum_passes[i].pc = "start"
    /\ \/ /\ vacuum_passes' = RemoveAt(vacuum_passes, i)
          /\ UNCHANGED metrics
       \/ \E order \in Orders(channels_with_messages(vacuum_passes[i].partition_id)) :
             /\ vacuum_passes' =
                   IF order = <<>> THEN RemoveAt(vacuum_passes, i)
                   ELSE [vacuum_passes EXCEPT ![i].pc = "loop", ![i].channels = order]
             /\ metrics' = Metered([metrics EXCEPT
                   !.passes[vacuum_passes[i].partition_id].selected = order])
    /\ fetched' = NoFetch
    /\ UNCHANGED <<taskVars, exportVars, requestVars, shard_dbs_len, now, message, next_source, vacuumed, ircVars, webVars>>

\* the pass moves on to its next channel
VacuumAdvance(i) ==
    IF Len(vacuum_passes[i].channels) = 1 THEN RemoveAt(vacuum_passes, i)
    ELSE [vacuum_passes EXCEPT ![i].channels = Tail(@)]

\* run_message_vacuum, one turn of the loop: the DELETE of the next channel
VacuumDelete(i) ==
    /\ vacuum_passes[i].pc = "loop"
    /\ LET partition_id == vacuum_passes[i].partition_id
           channel_login == Head(vacuum_passes[i].channels)
           rows == ChannelRows(partition_id, channel_login)
       IN  /\ message' = [message EXCEPT ![partition_id] = @ \ vacuum_deleted(rows, now)]
           /\ vacuumed' = [channel_login |-> channel_login, now |-> now, before |-> rows]
           /\ metrics' = Metered([metrics EXCEPT
                 !.passes[partition_id].issued =
                    Append(@, [channel_login |-> channel_login, result |-> "ok"]),
                 !.messages_vacuumed[partition_id] =
                    @ + Cardinality(vacuum_deleted(rows, now)),
                 !.messages_stored[partition_id] =
                    @ - Cardinality(vacuum_deleted(rows, now))])
    /\ vacuum_passes' = VacuumAdvance(i)
    /\ fetched' = NoFetch
    /\ UNCHANGED <<taskVars, exportVars, requestVars, shard_dbs_len, now, next_source, ircVars, webVars>>


\* mutant: a failed DELETE ends the pass
VacuumDeleteFails_ends_pass(i) ==
    /\ vacuum_passes[i].pc = "loop"
    /\ vacuum_passes' = RemoveAt(vacuum_passes, i)
    /\ fetched' = NoFetch
    /\ metrics' = Metered([metrics EXCEPT
          !.passes[vacuum_passes[i].partition_id].issued =
             Append(@, [channel_login |-> Head(vacuum_passes[i].channels),
                        result |-> "err"])])
    /\ UNCHANGED <<taskVars, exportVars, requestVars, shard_dbs_len, now, message,
                   next_source, vacuumed, ircVars, webVars>>
\* run_message_vacuum, one turn of the loop: the DELETE fails and is logged
VacuumDeleteFails(i) ==
    /\ vacuum_passes[i].pc = "loop"
    /\ vacuum_passes' = VacuumAdvance(i)
    /\ fetched' = NoFetch
    /\ metrics' = Metered([metrics EXCEPT
          !.passes[vacuum_passes[i].partition_id].issued =
             Append(@, [channel_login |-> Head(vacuum_passes[i].channels),
                        result |-> "err"])])
    /\ UNCHANGED <<taskVars, exportVars, requestVars, shard_dbs_len, now, message, next_source, vacuumed, ircVars, webVars>>

Limits == {None} \cup (0 .. max_buffer_size + 1)

\* the `before` and `after` a client may ask for: the millisecond timestamp of
\* a stored message of the channel, or the millisecond after it
Millis(channel_login) ==
    {None} \cup
    UNION { {timestamp_millis(r.time_received), timestamp_millis(r.time_received) + 1} :
            r \in ChannelRows(channel_to_partition_id(channel_login), channel_login) }

\* get_recent_messages, its fetch: the handler passes limit, before and after
\* on, and get_messages reads limit alone. Reads follow one another: the value
\* returned by the last one is gone when the next one starts.
GetRecentMessages(channel_login, limit, before, after) ==
    /\ fetched = NoFetch
    /\ \E messages \in get_messages(channel_login, limit) :
          fetched' = [channel_login |-> channel_login, limit |-> limit,
                      before |-> before, after |-> after, messages |-> messages]
    /\ UNCHANGED <<taskVars, exportVars, handlerVars, shard_dbs_len, now, message, next_source, vacuum_passes, vacuumed, ircVars, webVars>>

\* the store after construction: any number of shards, no rows
InitStore ==
    /\ shard_dbs_len \in 0 .. MaxShards
    /\ now = 0
    /\ message = [p \in Partitions |-> {}]
    /\ next_source = 0
    /\ vacuum_passes = <<>>
    /\ vacuumed = NoVacuum
    /\ fetched = NoFetch

\* the IRC client and the forwarder after IrcListener::start
InitIrc ==
    /\ wanted = {}
    /\ joined = {}
    /\ rx = <<>>
    /\ chunk_worker = [pc |-> "drain", chunk |-> <<>>]
    /\ insert_tasks = {}

\* the web server with no request yet
InitWeb ==
    /\ channel = [c \in Channels |-> NoRow]
    /\ user_login = ""
    /\ ignore_req = NoIgnoreReq
    /\ delayed_purges = 0
    /\ purged_twice = FALSE
    /\ get_req = NoGetReq

\* the long-running tasks after they were spawned, no cancellation yet
InitTasks ==
    /\ shutdown_signal = FALSE
    /\ tasks = [t \in TaskNames |-> "running"]
    /\ join_parter = [pc |-> "tick", result |-> "none"]
    /\ main_loop = [ctrl_c_event |-> "pending", process_monitoring |-> "pending",
                    webserver |-> "pending", exit_code |-> 0, exited |-> None]

\* no export under way
InitNoExport ==
    /\ stored_messages = <<>>
    /\ query_options = DefaultOptions
    /\ frames = <<>>
    /\ exported_messages = NoExport
    /\ reexported_messages = NoExport

\* no request of the other handlers has been made
InitRequests ==
    /\ purge_req = NoPurgeReq
    /\ http_req = NoHttpReq
    /\ http_request_timeouts = 0
    /\ run_state = Run
    /\ shutdown_sender = [dropped |-> FALSE, sent |-> <<>>, calls |-> 0, last_call |-> ""]
    /\ shutdown_receiver = [changed |-> TRUE, last_returned_value |-> NoNotice,
                            returned |-> <<>>]
    /\ compared = NotCompared
    /\ cloned_receiver = NotCloned
    /\ user_authorization = StoredAuthorization
    /\ auth_req = NoAuthReq
    /\ token_req = [op \in TokenOps |-> NoTokenReq]

InitHandlers == InitRequests /\ metrics = NoMetrics

Init == InitStore /\ InitIrc /\ InitWeb /\ InitTasks /\ InitNoExport /\ InitHandlers

Next ==
    \/ Tick
    \/ \E c \in Channels : StoreMessage(c)
    \/ VacuumTick
    \/ \E i \in 1 .. Len(vacuum_passes) : VacuumSelect(i)
    \/ \E i \in 1 .. Len(vacuum_passes) : VacuumDelete(i)
    \/ \E i \in 1 .. Len(vacuum_passes) : VacuumDeleteFails(i)
    \/ \E c \in Channels : GetRecentMessages(c, None, None, None)

Spec == Init /\ [][Next]_vars

\* the store under reads with every limit and window, without the vacuum
NextRead ==
    \/ Tick
    \/ \E c \in Channels : StoreMessage(c)
    \/ \E c \in Channels, limit \in Limits :
          \E before \in Millis(c), after \in Millis(c) :
             GetRecentMessages(c, limit, before, after)

SpecRead == Init /\ [][NextRead]_vars

(* -------------------- table `channel`, purge, ingestion ---------------- *)
\* is_channel_ignored: ignored_at IS NOT NULL, false when there is no row
is_channel_ignored(channel_login) ==
    /\ channel[channel_login].present
    /\ channel[channel_login].ignored_at # None

\* set_channel_ignored: the upsert of ignored_at
set_channel_ignored(row, should_be_ignored) ==
    [present |-> TRUE,
     last_access |-> IF row.present THEN row.last_access ELSE now,
     ignored_at |-> IF should_be_ignored THEN now ELSE None]

\* the 30 minutes a last_access must be old before touch_or_add_channel renews it
touch_after == 30 * 60 * 1000 * TicksPerMs

\* mutant: the upsert renews last_access whatever its age
touch_or_add_channel_always(row) ==
    IF ~row.present THEN [present |-> TRUE, last_access |-> now, ignored_at |-> None]
    ELSE [row EXCEPT !.last_access = now]

\* touch_or_add_channel: the upsert of last_access
touch_or_add_channel(row) ==
    IF ~row.present THEN [present |-> TRUE, last_access |-> now, ignored_at |-> None]
    ELSE IF row.last_access < now - touch_after THEN [row EXCEPT !.last_access = now]
    ELSE row

\* purge_messages: the table after DELETE FROM message WHERE channel_login = $1,
\* run in the partition of the channel
purge_messages(channel_login) ==
    [message EXCEPT ![channel_to_partition_id(channel_login)] =
        @ \ ChannelRows(channel_to_partition_id(channel_login), channel_login)]

\* mutant: a channel the client wants counts as joined
is_join_confirmed_wanted(channel_login) == channel_login \in wanted

\* get_channel_status(channel_login) == (true, true)
is_join_confirmed(channel_login) ==
    channel_login \in wanted /\ channel_login \in joined

\* mutant: every partition of the chunk gets the whole chunk
append_messages_ungrouped(messages) ==
    { [partition_id |-> p, messages |-> messages] :
      p \in {channel_to_partition_id(messages[i].channel_login) :
                i \in 1 .. Len(messages)} }

\* append_messages: the chunk grouped by partition, one INSERT task per group
append_messages(messages) ==
    { [partition_id |-> p,
       messages |-> SelectSeq(messages,
                       LAMBDA m : channel_to_partition_id(m.channel_login) = p)] :
      p \in {channel_to_partition_id(messages[i].channel_login) :
                i \in 1 .. Len(messages)} }

\* the IRC server catches up with what the client wants: a JOIN or a PART of
\* the client reaches it
IrcSync(channel_login) ==
    /\ (channel_login \in wanted) # (channel_login \in joined)
    /\ joined' = IF channel_login \in wanted THEN joined \cup {channel_login}
                 ELSE joined \ {channel_login}
    /\ UNCHANGED <<taskVars, exportVars, handlerVars, storeVars, wanted, rx, chunk_worker, insert_tasks, webVars>>

\* forward_worker: a message of a channel the server has the client joined to
\* is stamped and sent down the internal queue; the send fails, and the
\* failure is dropped, when the chunk worker and its receiver are gone
ForwardWorker(channel_login) ==
    /\ tasks["forward_worker"] = "running"
    /\ channel_login \in joined
    /\ next_source < MaxMessages
    /\ next_source' = next_source + 1
    /\ rx' = IF tasks["chunk_worker"] = "running"
             THEN Append(rx, [channel_login |-> channel_login,
                              time_received |-> trunc_subsecs(now),
                              message_source |-> next_source + 1])
             ELSE rx
    /\ fetched' = NoFetch
    /\ UNCHANGED <<taskVars, exportVars, handlerVars, shard_dbs_len, now, message, vacuum_passes,
                   vacuumed, wanted, joined, chunk_worker, insert_tasks, webVars>>

\* chunk_worker: try_recv until the queue is empty or the chunk is full; a
\* full chunk is handed to append_messages at once, any other waits
ChunkWorkerDrain ==
    /\ tasks["chunk_worker"] = "running"
    /\ chunk_worker.pc = "drain"
    /\ LET chunk == Take(rx, max_chunk_size)
       IN  /\ rx' = SubSeq(rx, Len(chunk) + 1, Len(rx))
           /\ IF Len(chunk) < max_chunk_size
              THEN /\ chunk_worker' = [pc |-> "sleep", chunk |-> chunk]
                   /\ UNCHANGED insert_tasks
              ELSE /\ chunk_worker' = [pc |-> "drain", chunk |-> <<>>]
                   /\ insert_tasks' = insert_tasks \cup append_messages(chunk)
    /\ fetched' = NoFetch
    /\ UNCHANGED <<taskVars, exportVars, handlerVars, shard_dbs_len, now, message, next_source, vacuum_passes, vacuumed,
                   wanted, joined, webVars>>

\* chunk_worker: forwarder_run_every has passed; an empty chunk is dropped,
\* any other goes to append_messages
ChunkWorkerStore ==
    /\ tasks["chunk_worker"] = "running"
    /\ chunk_worker.pc = "sleep"
    /\ chunk_worker' = [pc |-> "drain", chunk |-> <<>>]
    /\ insert_tasks' = IF chunk_worker.chunk = <<>> THEN insert_tasks
                       ELSE insert_tasks \cup append_messages(chunk_worker.chunk)
    /\ fetched' = NoFetch
    /\ UNCHANGED <<taskVars, exportVars, handlerVars, shard_dbs_len, now, message, next_source, vacuum_passes, vacuumed,
                   wanted, joined, rx, webVars>>

\* a task of append_messages runs its INSERT
InsertTask(task) ==
    /\ task \in insert_tasks
    /\ insert_tasks' = insert_tasks \ {task}
    /\ append_messages_partition(task.partition_id, task.messages)
    /\ fetched' = NoFetch
    /\ UNCHANGED <<taskVars, exportVars, requestVars, shard_dbs_len, now, next_source, vacuum_passes,
                   wanted, joined, rx, chunk_worker, webVars>>

\* a task of append_messages fails: the error is logged, the chunk is lost
InsertTaskFails(task) ==
    /\ task \in insert_tasks
    /\ insert_tasks' = insert_tasks \ {task}
    /\ fetched' = NoFetch
    /\ UNCHANGED <<taskVars, exportVars, handlerVars, shard_dbs_len, now, message, next_source, vacuum_passes, vacuumed,
                   wanted, joined, rx, chunk_worker, webVars>>

(* ---------------------------- POST /ignored ---------------------------- *)
\* set_ignored is called with a valid body by the user of channel_login.
\* The requests of one user are followed, and they follow one another: the
\* next comes when the delayed purge of the last has run.
SetIgnoredStart(channel_login, should_be_ignored) ==
    /\ user_login \in {"", channel_login}
    /\ user_login' = channel_login
    /\ ignore_req.pc = "idle"
    /\ delayed_purges = 0
    /\ ignore_req' = [pc |-> "set_channel_ignored",
                      should_be_ignored |-> should_be_ignored,
                      log |-> <<>>, response |-> 0]
    /\ purged_twice' = FALSE
    /\ UNCHANGED <<taskVars, exportVars, handlerVars, storeVars, ircVars, channel, delayed_purges, get_req>>

\* mutant: the channel is parted before the flag update is known to have worked
SetChannelIgnored_parts_first ==
    /\ ignore_req.pc = "set_channel_ignored"
    /\ \/ /\ ignore_req' = [ignore_req EXCEPT !.pc = "idle", !.response = 500,
                                              !.log = Append(@, "part")]
          /\ wanted' = wanted \ {user_login}
          /\ UNCHANGED channel
       \/ /\ channel' = [channel EXCEPT ![user_login] =
                            set_channel_ignored(@, ignore_req.should_be_ignored)]
          /\ IF ignore_req.should_be_ignored
             THEN /\ wanted' = wanted \ {user_login}
                  /\ ignore_req' = [ignore_req EXCEPT !.pc = "purge_messages",
                                                      !.log = Append(@, "part")]
             ELSE /\ wanted' = wanted \cup {user_login}
                  /\ ignore_req' = [ignore_req EXCEPT !.pc = "idle", !.response = 204,
                                                      !.log = Append(@, "join")]
    /\ UNCHANGED <<taskVars, exportVars, handlerVars, storeVars, joined, rx, chunk_worker, insert_tasks,
                   user_login, delayed_purges, purged_twice, get_req>>

\* set_ignored, the flag update and what follows it without waiting: the
\* update fails and the request ends with 500, or it is done and the channel
\* is parted (ignored) or joined and the request answered 204 (not ignored)
SetChannelIgnored ==
    /\ ignore_req.pc = "set_channel_ignored"
    /\ \/ /\ ignore_req' = [ignore_req EXCEPT !.pc = "idle", !.response = 500]
          /\ UNCHANGED <<channel, wanted>>
       \/ /\ channel' = [channel EXCEPT ![user_login] =
                            set_channel_ignored(@, ignore_req.should_be_ignored)]
          /\ IF ignore_req.should_be_ignored
             THEN /\ wanted' = wanted \ {user_login}
                  /\ ignore_req' = [ignore_req EXCEPT !.pc = "purge_messages",
                                                      !.log = Append(@, "part")]
             ELSE /\ wanted' = wanted \cup {user_login}
                  /\ ignore_req' = [ignore_req EXCEPT !.pc = "idle", !.response = 204,
                                                      !.log = Append(@, "join")]
    /\ UNCHANGED <<taskVars, exportVars, handlerVars, storeVars, joined, rx, chunk_worker, insert_tasks,
                   user_login, delayed_purges, purged_twice, get_req>>

\* set_ignored, the purge: it deletes or fails (its result is dropped), the
\* delayed purge is spawned and the request is answered 204
SetIgnoredPurge ==
    /\ ignore_req.pc = "purge_messages"
    /\ \/ /\ message' = purge_messages(user_login)
          /\ metrics' = Metered([metrics EXCEPT
                !.messages_stored[channel_to_partition_id(user_login)] =
                   @ - Cardinality(ChannelRows(channel_to_partition_id(user_login),
                                               user_login))])
       \/ UNCHANGED <<message, metrics>>
    /\ delayed_purges' = delayed_purges + 1
    /\ ignore_req' = [ignore_req EXCEPT !.pc = "idle", !.response = 204,
                                        !.log = Append(@, "purge_messages")]
    /\ UNCHANGED <<taskVars, exportVars, requestVars, shard_dbs_len, now, next_source, vacuum_passes, vacuumed, fetched,
                   ircVars, channel, user_login, purged_twice, get_req>>

\* the spawned task, three seconds later: the second purge deletes or fails
DelayedPurge ==
    /\ delayed_purges > 0
    /\ delayed_purges' = delayed_purges - 1
    /\ \/ /\ message' = purge_messages(user_login)
          /\ purged_twice' = TRUE
          /\ metrics' = Metered([metrics EXCEPT
                !.messages_stored[channel_to_partition_id(user_login)] =
                   @ - Cardinality(ChannelRows(channel_to_partition_id(user_login),
                                               user_login))])
       \/ UNCHANGED <<message, purged_twice, metrics>>
    /\ ignore_req' = [ignore_req EXCEPT !.log = Append(@, "purge_messages")]
    /\ UNCHANGED <<taskVars, exportVars, requestVars, shard_dbs_len, now, next_source, vacuum_passes, vacuumed, fetched,
                   ircVars, channel, user_login, get_req>>

NextIgnore ==
    \/ \E c \in Channels, should_be_ignored \in BOOLEAN :
          SetIgnoredStart(c, should_be_ignored)
    \/ SetChannelIgnored
    \/ SetIgnoredPurge
    \/ DelayedPurge
    \/ IrcSync(user_login)
    \/ ForwardWorker(user_login)
    \/ ChunkWorkerDrain
    \/ ChunkWorkerStore
    \/ \E task \in insert_tasks : InsertTask(task)
    \/ \E task \in insert_tasks : InsertTaskFails(task)

\* the ingestion path and POST /ignored of one user, the clock standing still
SpecIgnore == Init /\ [][NextIgnore]_vars

\* the same, with the handler and the task it spawns running on: tokio polls
\* a ready future, and a storage call returns with a result or an error
SpecIgnoreFair ==
    /\ SpecIgnore
    /\ WF_vars(SetChannelIgnored)
    /\ WF_vars(SetIgnoredPurge)
    /\ WF_vars(DelayedPurge)

(* ----------------------- GET /recent-messages -------------------------- *)
\* ApiError::status_code, for the errors the handlers of the model return
status_code(error) ==
    CASE error \in {"GetChannelIgnored", "SetChannelIgnored", "GetMessages",
                    "PurgeMessages", "QueryAccessToken", "QueryUserDetails",
                    "FailedTwitchAccessTokenRefresh", "UpdateUserAuthorization",
                    "AuthorizationRevokeFailed"} -> 500
      [] error = "RequestTimeout" -> 408
      [] error = "ChannelIgnored" -> 403
      [] error = "Unauthorized" -> 401
      [] OTHER -> 400

\* ApiError::error_code
error_code(error) ==
    CASE error \in {"GetChannelIgnored", "SetChannelIgnored", "GetMessages",
                    "PurgeMessages", "QueryAccessToken", "QueryUserDetails",
                    "FailedTwitchAccessTokenRefresh", "UpdateUserAuthorization",
                    "AuthorizationRevokeFailed"}
            -> "internal_server_error"
      [] error = "RequestTimeout" -> "request_timeout"
      [] error = "ChannelIgnored" -> "channel_ignored"
      [] error = "Unauthorized" -> "unauthorized"
      [] error = "MissingHeader" -> "missing_header"
      [] error = "HeaderValueNotUtf8" -> "header_value_not_utf8"
      [] error = "MalformedAuthorizationHeader" -> "malformed_authorization_header"
      [] OTHER -> "invalid"

\* the response of a handler that returned Err(error)
Rejected(req, error) ==
    [req EXCEPT !.pc = "idle", !.error = error, !.response = status_code(error),
                !.error_code = error_code(error)]

\* get_recent_messages is called with a valid channel login, that of the user
\* followed; the request before it, and the task it spawned, have ended
GetStart(channel_login) ==
    /\ user_login \in {"", channel_login}
    /\ user_login' = channel_login
    /\ get_req.pc = "idle"
    /\ get_req.task = "idle"
    /\ get_req' = [NoGetReq EXCEPT !.pc = "is_channel_ignored"]
    /\ UNCHANGED <<taskVars, exportVars, handlerVars, storeVars, ircVars, channel, ignore_req,
                   delayed_purges, purged_twice>>

\* mutant: an ignored channel is noted and the request goes on
GetIsChannelIgnored_goes_on ==
    /\ get_req.pc = "is_channel_ignored"
    /\ \/ get_req' = Rejected(get_req, "GetChannelIgnored")
       \/ get_req' = [get_req EXCEPT !.pc = "get_messages",
                                     !.ignored = is_channel_ignored(user_login)]
    /\ UNCHANGED <<taskVars, exportVars, handlerVars, storeVars, ircVars, channel, user_login, ignore_req,
                   delayed_purges, purged_twice>>

\* get_recent_messages, the ignored check: the query fails (500), the channel
\* is ignored (403), or the request goes on
GetIsChannelIgnored ==
    /\ get_req.pc = "is_channel_ignored"
    /\ \/ get_req' = Rejected(get_req, "GetChannelIgnored")
       \/ get_req' = IF is_channel_ignored(user_login)
                     THEN [Rejected(get_req, "ChannelIgnored") EXCEPT !.ignored = TRUE]
                     ELSE [get_req EXCEPT !.pc = "get_messages"]
    /\ UNCHANGED <<taskVars, exportVars, handlerVars, storeVars, ircVars, channel, user_login, ignore_req,
                   delayed_purges, purged_twice>>

\* mutant: a failed fetch counts as no messages and the request goes on
GetGetMessages_empty_on_error ==
    /\ get_req.pc = "get_messages"
    /\ \/ get_req' = [get_req EXCEPT !.pc = "is_join_confirmed",
                                     !.error = "GetMessages",
                                     !.log = Append(@, "get_messages")]
       \/ \E messages \in get_messages(user_login, None) :
             get_req' = [get_req EXCEPT !.pc = "is_join_confirmed",
                                        !.stored_messages = messages,
                                        !.log = Append(@, "get_messages")]
    /\ UNCHANGED <<taskVars, exportVars, handlerVars, storeVars, ircVars, channel, user_login, ignore_req,
                   delayed_purges, purged_twice>>

\* get_recent_messages, the fetch: it fails (500) or returns the messages
GetGetMessages ==
    /\ get_req.pc = "get_messages"
    /\ \/ get_req' = [Rejected(get_req, "GetMessages") EXCEPT
                         !.log = Append(@, "get_messages")]
       \/ \E messages \in get_messages(user_login, None) :
             get_req' = [get_req EXCEPT !.pc = "is_join_confirmed",
                                        !.stored_messages = messages,
                                        !.log = Append(@, "get_messages")]
    /\ UNCHANGED <<taskVars, exportVars, handlerVars, storeVars, ircVars, channel, user_login, ignore_req,
                   delayed_purges, purged_twice>>

\* get_recent_messages, the end: the join status is probed, the task is
\* spawned and the response sent
GetRespond ==
    /\ get_req.pc = "is_join_confirmed"
    /\ get_req' = [get_req EXCEPT
          !.pc = "idle",
          !.task = "join_if_needed",
          !.is_confirmed_joined = is_join_confirmed(user_login),
          !.response = 200,
          !.error_code = IF is_join_confirmed(user_login) THEN ""
                         ELSE "channel_not_joined"]
    /\ UNCHANGED <<taskVars, exportVars, handlerVars, storeVars, ircVars, channel, user_login, ignore_req,
                   delayed_purges, purged_twice>>

\* the spawned task: join_if_needed
BgJoinIfNeeded ==
    /\ get_req.task = "join_if_needed"
    /\ wanted' = wanted \cup {user_login}
    /\ get_req' = [get_req EXCEPT
          !.task = IF get_req.is_confirmed_joined THEN "touch_or_add_channel"
                   ELSE "sleep",
          !.log = Append(@, "join")]
    /\ UNCHANGED <<taskVars, exportVars, handlerVars, storeVars, joined, rx, chunk_worker, insert_tasks, channel,
                   user_login, ignore_req, delayed_purges, purged_twice>>

\* the spawned task: five seconds later the join status is probed again
BgRecheck ==
    /\ get_req.task = "sleep"
    /\ get_req' = [get_req EXCEPT
          !.task = IF is_join_confirmed(user_login) THEN "touch_or_add_channel"
                   ELSE "idle",
          !.is_confirmed_joined = is_join_confirmed(user_login)]
    /\ UNCHANGED <<taskVars, exportVars, handlerVars, storeVars, ircVars, channel, user_login, ignore_req,
                   delayed_purges, purged_twice>>

\* the spawned task: touch_or_add_channel is done, or fails and is logged
BgTouch ==
    /\ get_req.task = "touch_or_add_channel"
    /\ get_req' = [get_req EXCEPT !.task = "idle",
                                  !.log = Append(@, "touch_or_add_channel")]
    /\ \/ channel' = [channel EXCEPT ![user_login] = touch_or_add_channel(@)]
       \/ UNCHANGED channel
    /\ UNCHANGED <<taskVars, exportVars, handlerVars, storeVars, ircVars, user_login, ignore_req,
                   delayed_purges, purged_twice>>

NextGet ==
    \/ \E c \in Channels : GetStart(c)
    \/ GetIsChannelIgnored
    \/ GetGetMessages
    \/ GetRespond
    \/ BgJoinIfNeeded
    \/ BgRecheck
    \/ BgTouch
    \/ \E c \in Channels, should_be_ignored \in BOOLEAN :
          SetIgnoredStart(c, should_be_ignored)
    \/ SetChannelIgnored
    \/ SetIgnoredPurge
    \/ DelayedPurge
    \/ IrcSync(user_login)
    \/ \E c \in joined : StoreMessage(c)

\* GET /recent-messages and POST /ignored of one user, side by side
SpecGet == Init /\ [][NextGet]_vars

(* --------------------------- ingestion alone --------------------------- *)
\* the IRC client joined to every channel, the forwarder idle
InitIrcJoined ==
    /\ wanted = Channels
    /\ joined = Channels
    /\ rx = <<>>
    /\ chunk_worker = [pc |-> "drain", chunk |-> <<>>]
    /\ insert_tasks = {}

InitIngest ==
    InitStore /\ InitIrcJoined /\ InitWeb /\ InitTasks /\ InitNoExport /\ InitHandlers

NextIngest ==
    \/ Tick
    \/ \E c \in joined : ForwardWorker(c)
    \/ ChunkWorkerDrain
    \/ ChunkWorkerStore
    \/ \E task \in insert_tasks : InsertTask(task)
    \/ \E task \in insert_tasks : InsertTaskFails(task)
    \/ \E c \in Channels : GetRecentMessages(c, None, None, None)

\* messages of the joined channels on their way from the IRC stream to the
\* store, the clock running, and reads of what is stored
SpecIngest == InitIngest /\ [][NextIngest]_vars

NextForwarder ==
    \/ \E c \in joined : ForwardWorker(c)
    \/ ChunkWorkerDrain
    \/ ChunkWorkerStore
    \/ \E task \in insert_tasks : InsertTask(task)
    \/ \E task \in insert_tasks : InsertTaskFails(task)

\* the forwarder and the INSERT tasks alone: the way of each message
SpecForwarder == InitIngest /\ [][NextForwarder]_vars

(* ---------------------- join/part loop, shutdown ----------------------- *)
\* mutant: the query leaves ignored_at out
get_channel_logins_to_join_ignored_too ==
    {c \in Channels : /\ channel[c].present
                      /\ channel[c].last_access > now - channels_expire_after}

\* get_channel_logins_to_join: the channels not ignored and accessed less
\* than channels_expire_after ago
get_channel_logins_to_join ==
    {c \in Channels : /\ channel[c].present
                      /\ channel[c].ignored_at = None
                      /\ channel[c].last_access > now - channels_expire_after}

\* run_channel_join_parter: check_interval ticks
JoinParterTick ==
    /\ tasks["channel_join_parter"] = "running"
    /\ join_parter.pc = "tick"
    /\ join_parter' = [pc |-> "query", result |-> "none"]
    /\ UNCHANGED <<storeVars, ircVars, webVars, shutdown_signal, tasks, main_loop, exportVars, handlerVars>>

\* mutant: a failed query is taken for an empty list of channels
JoinParterQuery_empty_on_error ==
    /\ tasks["channel_join_parter"] = "running"
    /\ join_parter.pc = "query"
    /\ \/ /\ join_parter' = [pc |-> "tick", result |-> "failed"]
          /\ wanted' = {}
       \/ /\ join_parter' = [pc |-> "tick", result |-> "ok"]
          /\ wanted' = get_channel_logins_to_join
    /\ UNCHANGED <<storeVars, joined, rx, chunk_worker, insert_tasks, webVars,
                   shutdown_signal, tasks, main_loop, exportVars, handlerVars>>

\* run_channel_join_parter, the rest of the iteration: the query fails, is
\* logged and the iteration skipped, or its result becomes the wanted set
JoinParterQuery ==
    /\ tasks["channel_join_parter"] = "running"
    /\ join_parter.pc = "query"
    /\ \/ /\ join_parter' = [pc |-> "tick", result |-> "failed"]
          /\ UNCHANGED wanted
       \/ /\ join_parter' = [pc |-> "tick", result |-> "ok"]
          /\ wanted' = get_channel_logins_to_join
    /\ UNCHANGED <<storeVars, joined, rx, chunk_worker, insert_tasks, webVars,
                   shutdown_signal, tasks, main_loop, exportVars, handlerVars>>

\* the application's shutdown signal is cancelled
Cancel ==
    /\ ~shutdown_signal
    /\ shutdown_signal' = TRUE
    /\ UNCHANGED <<storeVars, ircVars, webVars, tasks, join_parter, main_loop, exportVars, handlerVars>>

\* mutant: a task looks at the signal only while it waits for its next turn
TaskExit_between_turns(task) ==
    /\ shutdown_signal
    /\ tasks[task] = "running"
    /\ task = "chunk_worker" => chunk_worker.pc = "drain"
    /\ task = "channel_join_parter" => join_parter.pc = "tick"
    /\ tasks' = [tasks EXCEPT ![task] = "exited"]
    /\ UNCHANGED <<storeVars, ircVars, webVars, shutdown_signal, join_parter, main_loop, exportVars, handlerVars>>

\* tokio::select! of a task's loop against shutdown_signal.cancelled(): the
\* loop is dropped where it waits, with what it holds, and the task ends
TaskExit(task) ==
    /\ shutdown_signal
    /\ tasks[task] = "running"
    /\ tasks' = [tasks EXCEPT ![task] = "exited"]
    /\ UNCHANGED <<storeVars, ircVars, webVars, shutdown_signal, join_parter, main_loop, exportVars, handlerVars>>

NextShutdown ==
    \/ Cancel
    \/ \E task \in TaskNames : TaskExit(task)
    \/ \E c \in joined : ForwardWorker(c)
    \/ ChunkWorkerDrain
    \/ ChunkWorkerStore
    \/ JoinParterTick
    \/ JoinParterQuery
    \/ VacuumTick

\* the long-running tasks at work, and the shutdown; the INSERT tasks and the
\* vacuum passes the loops spawn are tasks of their own and are left where
\* they start
SpecShutdown == InitIngest /\ [][NextShutdown]_vars

\* a future main's select! awaits has completed with some result
Ready(future) == future \notin {"pending", "terminated"}

\* SIGINT or SIGTERM arrives: ctrl_c_event completes
SignalArrives ==
    /\ main_loop.exited = None
    /\ main_loop.ctrl_c_event = "pending"
    /\ main_loop' = [main_loop EXCEPT !.ctrl_c_event = "ready"]
    /\ UNCHANGED <<storeVars, ircVars, webVars, shutdown_signal, tasks, join_parter, exportVars, handlerVars>>

\* the process-monitoring task ends, returning or panicking, at any time
ProcessMonitoringEnds(result) ==
    /\ main_loop.exited = None
    /\ main_loop.process_monitoring = "pending"
    /\ main_loop' = [main_loop EXCEPT !.process_monitoring = result]
    /\ UNCHANGED <<storeVars, ircVars, webVars, shutdown_signal, tasks, join_parter, exportVars, handlerVars>>

\* the webserver task ends: Ok(Ok(())), Ok(Err(tower_error)) or Err(join_error)
WebserverEnds(result) ==
    /\ main_loop.exited = None
    /\ main_loop.webserver = "pending"
    /\ main_loop' = [main_loop EXCEPT !.webserver = result]
    /\ UNCHANGED <<storeVars, ircVars, webVars, shutdown_signal, tasks, join_parter, exportVars, handlerVars>>

\* main, the select! branch of ctrl_c_event: the shared signal is cancelled
MainInterrupted ==
    /\ main_loop.exited = None
    /\ main_loop.ctrl_c_event = "ready"
    /\ main_loop' = [main_loop EXCEPT !.ctrl_c_event = "terminated"]
    /\ shutdown_signal' = TRUE
    /\ UNCHANGED <<storeVars, ircVars, webVars, tasks, join_parter, exportVars, handlerVars>>

\* main, the select! branch of process_monitoring_join_handle
MainProcessMonitoringEnded ==
    /\ main_loop.exited = None
    /\ Ready(main_loop.process_monitoring)
    /\ IF main_loop.process_monitoring = "Ok" /\ main_loop.ctrl_c_event = "terminated"
       THEN /\ main_loop' = [main_loop EXCEPT !.process_monitoring = "terminated"]
            /\ UNCHANGED shutdown_signal
       ELSE /\ main_loop' = [main_loop EXCEPT !.process_monitoring = "terminated",
                                              !.exit_code = 1]
            /\ shutdown_signal' = TRUE
    /\ UNCHANGED <<storeVars, ircVars, webVars, tasks, join_parter, exportVars, handlerVars>>

\* main, the select! branch of webserver_join_handle
MainWebserverEnded ==
    /\ main_loop.exited = None
    /\ Ready(main_loop.webserver)
    /\ IF main_loop.webserver = "Ok" /\ main_loop.ctrl_c_event = "terminated"
       THEN /\ main_loop' = [main_loop EXCEPT !.webserver = "terminated"]
            /\ UNCHANGED shutdown_signal
       ELSE /\ main_loop' = [main_loop EXCEPT !.webserver = "terminated",
                                              !.exit_code = 1]
            /\ shutdown_signal' = TRUE
    /\ UNCHANGED <<storeVars, ircVars, webVars, tasks, join_parter, exportVars, handlerVars>>

\* main, the else branch of the select!: every branch is disabled, the
\* process exits with exit_code
MainExit ==
    /\ main_loop.exited = None
    /\ main_loop.ctrl_c_event = "terminated"
    /\ main_loop.process_monitoring = "terminated"
    /\ main_loop.webserver = "terminated"
    /\ main_loop' = [main_loop EXCEPT !.exited = main_loop.exit_code]
    /\ UNCHANGED <<storeVars, ircVars, webVars, shutdown_signal, tasks, join_parter, exportVars, handlerVars>>

NextMain ==
    \/ SignalArrives
    \/ \E result \in {"Ok", "JoinError"} : ProcessMonitoringEnds(result)
    \/ \E result \in {"Ok", "TowerError", "JoinError"} : WebserverEnds(result)
    \/ MainInterrupted
    \/ MainProcessMonitoringEnded
    \/ MainWebserverEnded
    \/ MainExit
    \/ \E task \in TaskNames : TaskExit(task)

\* main's loop, the two tasks it joins and the tasks that follow the shared
\* signal; a task the signal has reached ends, and main's select! is polled
SpecMainFair ==
    /\ InitIngest
    /\ [][NextMain]_vars
    /\ WF_vars(shutdown_signal /\ ProcessMonitoringEnds("Ok"))
    /\ WF_vars(shutdown_signal /\ WebserverEnds("Ok"))
    /\ WF_vars(MainInterrupted)
    /\ WF_vars(MainProcessMonitoringEnded)
    /\ WF_vars(MainWebserverEnded)
    /\ WF_vars(MainExit)

NextTasks ==
    \/ Cancel
    \/ \E task \in TaskNames : TaskExit(task)
    \/ ChunkWorkerDrain
    \/ ChunkWorkerStore
    \/ JoinParterTick
    \/ JoinParterQuery
    \/ VacuumTick

\* the loops of the four tasks on a quiet stream, and the shutdown, the
\* runtime polling the cancelled branch of every select!
SpecTasksFair ==
    /\ InitIngest
    /\ [][NextTasks]_vars
    /\ \A task \in TaskNames : WF_vars(TaskExit(task))

NextJoinPart ==
    \/ Tick
    \/ JoinParterTick
    \/ JoinParterQuery
    \/ \E c \in Channels : GetStart(c)
    \/ GetIsChannelIgnored
    \/ GetGetMessages
    \/ GetRespond
    \/ BgJoinIfNeeded
    \/ BgRecheck
    \/ BgTouch
    \/ \E c \in Channels, should_be_ignored \in BOOLEAN :
          SetIgnoredStart(c, should_be_ignored)
    \/ SetChannelIgnored
    \/ SetIgnoredPurge
    \/ DelayedPurge
    \/ IrcSync(user_login)

\* the join/part loop beside the requests that change table `channel`, the
\* clock running
SpecJoinPart == Init /\ [][NextJoinPart]_vars

\* POST /purge is called for the channel of the authorized user
PurgeStart(channel_login) ==
    /\ user_login \in {"", channel_login}
    /\ user_login' = channel_login
    /\ purge_req.pc = "idle"
    /\ purge_req' = [NoPurgeReq EXCEPT !.pc = "purge_messages"]
    /\ UNCHANGED <<storeVars, metrics, authVars, http_req, http_request_timeouts, shutdownVars, ircVars, taskVars, exportVars, channel, ignore_req,
                   delayed_purges, purged_twice, get_req>>

\* web::purge::purge_messages: the purge deletes the rows of the channel or
\* fails; its result is dropped and the handler returns NO_CONTENT
PurgeMessages ==
    /\ purge_req.pc = "purge_messages"
    /\ \/ /\ message' = purge_messages(user_login)
          /\ metrics' = Metered([metrics EXCEPT
                !.messages_stored[channel_to_partition_id(user_login)] =
                   @ - Cardinality(ChannelRows(channel_to_partition_id(user_login),
                                               user_login))])
          /\ purge_req' = [purge_req EXCEPT !.pc = "idle", !.result = "ok",
                                            !.response = 204]
       \/ /\ UNCHANGED <<message, metrics>>
          /\ purge_req' = [purge_req EXCEPT !.pc = "idle", !.result = "err",
                                            !.response = 204]
    /\ fetched' = NoFetch
    /\ UNCHANGED <<shard_dbs_len, now, next_source, vacuum_passes, vacuumed, ircVars,
                   webVars, taskVars, exportVars,
                   http_req, http_request_timeouts, shutdownVars, authVars>>

NextPurge ==
    \/ Tick
    \/ \E c \in joined : StoreMessage(c)
    \/ \E c \in Channels : PurgeStart(c)
    \/ PurgeMessages
    \/ \E c \in Channels : GetRecentMessages(c, None, None, None)

\* POST /purge of one user beside the ingestion of the channels
SpecPurge == InitIngest /\ [][NextPurge]_vars

\* the vacuum with its passes and counters followed, the counters set from
\* the (empty) tables at startup
InitVacuum ==
    /\ InitStore
    /\ InitIrc /\ InitWeb /\ InitTasks /\ InitNoExport /\ InitRequests
    /\ metrics = [on |-> TRUE,
                  passes |-> [p \in Partitions |-> NoPass],
                  messages_vacuumed |-> [p \in Partitions |-> 0],
                  messages_stored |-> [p \in Partitions |-> 0]]

NextVacuum ==
    \/ Tick
    \/ \E c \in Channels : StoreMessage(c)
    \/ VacuumTick
    \/ \E i \in 1 .. Len(vacuum_passes) : VacuumSelect(i)
    \/ \E i \in 1 .. Len(vacuum_passes) : VacuumDelete(i)
    \/ \E i \in 1 .. Len(vacuum_passes) : VacuumDeleteFails(i)

SpecVacuum == InitVacuum /\ [][NextVacuum]_vars

\* the awaits of the handler behind the middleware
HandlerAwaits == 2

\* timeout: a request comes in; the sleep is set and the handler's future made
TimeoutStart ==
    /\ http_req.pc \in {"idle", "done"}
    /\ http_req' = [pc |-> "select", deadline |-> now + request_timeout, awaits |-> 0,
                    completed_at |-> None, responses |-> <<>>,
                    timeouts_before |-> http_request_timeouts]
    /\ UNCHANGED <<storeVars, ircVars, webVars, taskVars, exportVars, metrics, authVars, purge_req, shutdownVars,
                   http_request_timeouts>>

\* mutant: the handler runs on its own and goes on after the response
HandlerStep_detached ==
    /\ http_req.pc \in {"select", "done"}
    /\ http_req.awaits < HandlerAwaits
    /\ http_req' = [http_req EXCEPT !.awaits = @ + 1]
    /\ UNCHANGED <<storeVars, ircVars, webVars, taskVars, exportVars, metrics, authVars, purge_req, shutdownVars,
                   http_request_timeouts>>

\* the select polls the handler, which runs up to its next await; the sleep
\* has not elapsed, or it would have been found elapsed
HandlerStep ==
    /\ http_req.pc = "select"
    /\ now < http_req.deadline
    /\ http_req.awaits < HandlerAwaits
    /\ http_req' = [http_req EXCEPT !.awaits = @ + 1]
    /\ UNCHANGED <<storeVars, ircVars, webVars, taskVars, exportVars, metrics, authVars, purge_req, shutdownVars,
                   http_request_timeouts>>

\* the select polls the handler, which completes: its response is returned.
\* When the sleep has elapsed too, the select takes either branch.
HandlerCompletes(status) ==
    /\ http_req.pc = "select"
    /\ http_req.awaits = HandlerAwaits
    /\ http_req' = [http_req EXCEPT !.pc = "done", !.completed_at = now,
                                    !.responses = Append(@, status)]
    /\ UNCHANGED <<storeVars, ircVars, webVars, taskVars, exportVars, metrics, authVars, purge_req, shutdownVars,
                   http_request_timeouts>>

\* the select finds the sleep elapsed: the counter is incremented, the
\* handler's future is dropped and RequestTimeout returned
TimeoutElapsed ==
    /\ http_req.pc = "select"
    /\ now >= http_req.deadline
    /\ http_request_timeouts' = http_request_timeouts + 1
    /\ http_req' = [http_req EXCEPT !.pc = "done",
                       !.responses = Append(@, status_code("RequestTimeout"))]
    /\ UNCHANGED <<storeVars, ircVars, webVars, taskVars, exportVars, metrics, authVars, purge_req, shutdownVars>>

\* time passes; an elapsed sleep wakes the select before it passes further
TimerTick ==
    /\ ~(http_req.pc = "select" /\ now >= http_req.deadline)
    /\ Tick

NextTimeout ==
    \/ TimerTick
    \/ TimeoutStart
    \/ HandlerStep
    \/ \E status \in {200, 403, 500} : HandlerCompletes(status)
    \/ TimeoutElapsed

\* requests of one connection, one after the other, under the timeout
SpecTimeout == Init /\ [][NextTimeout]_vars

\* the calls followed of the sender
MaxCalls == 3

\* Ord for bool: false < true
bool_cmp(self, other) ==
    IF self = other THEN "Equal" ELSE IF other THEN "Less" ELSE "Greater"

\* mutant: the notices are compared forwards
ShutdownNotice_cmp_forwards(self, other) == bool_cmp(self.graceful, other.graceful)

\* Ord for ShutdownNotice: other.graceful.cmp(&self.graceful)
ShutdownNotice_cmp(self, other) == bool_cmp(other.graceful, self.graceful)

\* Ord for RunState
RunState_cmp(self, other) ==
    CASE self = Run /\ other = Run -> "Equal"
      [] self = Run /\ other # Run -> "Less"
      [] self # Run /\ other = Run -> "Greater"
      [] OTHER -> ShutdownNotice_cmp(self.notice, other.notice)

\* ShutdownNotice::ultimate
ultimate == ShutdownNotice(FALSE)

\* the comparisons of three run states or three notices, as cmp returns them
Compare(type, a, b, c) ==
    /\ compared' = [type |-> type, a |-> a, b |-> b, c |-> c,
                    ab |-> IF type = "RunState" THEN RunState_cmp(a, b)
                           ELSE ShutdownNotice_cmp(a, b),
                    ba |-> IF type = "RunState" THEN RunState_cmp(b, a)
                           ELSE ShutdownNotice_cmp(b, a),
                    bc |-> IF type = "RunState" THEN RunState_cmp(b, c)
                           ELSE ShutdownNotice_cmp(b, c),
                    ac |-> IF type = "RunState" THEN RunState_cmp(a, c)
                           ELSE ShutdownNotice_cmp(a, c)]
    /\ UNCHANGED <<storeVars, ircVars, webVars, taskVars, exportVars, metrics, authVars, purge_req,
                   http_req, http_request_timeouts, run_state, shutdown_sender,
                   shutdown_receiver, cloned_receiver>>

\* mutant: the new state is sent whatever the state before
initiate_shutdown_always_sends(sender, graceful) ==
    [sender EXCEPT !.sent = Append(@, Shutdown(ShutdownNotice(graceful)))]

\* ShutdownNoticeSender::initiate_shutdown: the sender after the call; the
\* new state is sent only when it is more severe than the current value
initiate_shutdown(sender, graceful) ==
    IF RunState_cmp(run_state, Shutdown(ShutdownNotice(graceful))) = "Less"
    THEN [sender EXCEPT !.sent = Append(@, Shutdown(ShutdownNotice(graceful)))]
    ELSE sender

\* watch::Sender::send: the channel holds the last value sent, and the
\* receiver is told of the change
Sent(sender) ==
    /\ run_state' = IF sender.sent = shutdown_sender.sent THEN run_state
                    ELSE sender.sent[Len(sender.sent)]
    /\ shutdown_receiver' =
          IF sender.sent = shutdown_sender.sent THEN shutdown_receiver
          ELSE [shutdown_receiver EXCEPT !.changed = TRUE]
    /\ cloned_receiver' =
          IF sender.sent = shutdown_sender.sent \/ ~cloned_receiver.cloned
          THEN cloned_receiver
          ELSE [cloned_receiver EXCEPT !.changed = TRUE]

\* a call of initiate_shutdown(graceful)
InitiateShutdown(graceful) ==
    /\ ~shutdown_sender.dropped
    /\ shutdown_sender.calls < MaxCalls
    /\ LET sender == initiate_shutdown(shutdown_sender, graceful)
       IN  /\ Sent(sender)
           /\ shutdown_sender' = [sender EXCEPT !.calls = @ + 1,
                                     !.last_call = "initiate_shutdown"]
    /\ UNCHANGED <<storeVars, ircVars, webVars, taskVars, exportVars, metrics, authVars, purge_req,
                   http_req, http_request_timeouts, compared>>

\* ShutdownNoticeSender::next_shutdown_severity
NextShutdownSeverity ==
    /\ ~shutdown_sender.dropped
    /\ shutdown_sender.calls < MaxCalls
    /\ LET sender == CASE run_state = Run -> initiate_shutdown(shutdown_sender, TRUE)
                       [] run_state = Shutdown(ShutdownNotice(TRUE))
                             -> initiate_shutdown(shutdown_sender, FALSE)
                       [] OTHER -> shutdown_sender
       IN  /\ Sent(sender)
           /\ shutdown_sender' = [sender EXCEPT !.calls = @ + 1,
                                     !.last_call = "next_shutdown_severity"]
    /\ UNCHANGED <<storeVars, ircVars, webVars, taskVars, exportVars, metrics, authVars, purge_req,
                   http_req, http_request_timeouts, compared>>

\* the sender is dropped: the receiver's changed() returns Err from then on
SenderDropped ==
    /\ ~shutdown_sender.dropped
    /\ shutdown_sender' = [shutdown_sender EXCEPT !.dropped = TRUE]
    /\ UNCHANGED <<storeVars, ircVars, webVars, taskVars, exportVars, metrics, authVars, purge_req,
                   http_req, http_request_timeouts, run_state, shutdown_receiver, compared,
                   cloned_receiver>>

\* mutant: a receiver may always have more notices
may_have_more_notices_always(last_returned_value) == TRUE

\* ShutdownNoticeReceiver::may_have_more_notices: last_returned_value <
\* Some(ultimate), None being less than every Some
may_have_more_notices(last_returned_value) ==
    IF last_returned_value = NoNotice THEN TRUE
    ELSE ShutdownNotice_cmp(last_returned_value, ultimate) = "Less"

\* ShutdownNoticeReceiver::next_shutdown_notice, one turn of its loop: a
\* changed value is read, Run is passed over and a notice returned; when the
\* sender is gone and nothing is unread the ultimate notice is returned
NextShutdownNotice ==
    /\ may_have_more_notices(shutdown_receiver.last_returned_value)
    /\ \/ /\ shutdown_receiver.changed
          /\ shutdown_receiver' =
                [changed |-> FALSE,
                 last_returned_value |->
                    IF run_state = Run THEN shutdown_receiver.last_returned_value
                    ELSE run_state.notice,
                 returned |->
                    IF run_state = Run THEN shutdown_receiver.returned
                    ELSE Append(shutdown_receiver.returned, run_state.notice)]
       \/ /\ ~shutdown_receiver.changed
          /\ shutdown_sender.dropped
          /\ shutdown_receiver' = [shutdown_receiver EXCEPT
                                      !.last_returned_value = ultimate,
                                      !.returned = Append(@, ultimate)]
    /\ UNCHANGED <<storeVars, ircVars, webVars, taskVars, exportVars, metrics, authVars, purge_req,
                   http_req, http_request_timeouts, run_state, shutdown_sender, compared,
                   cloned_receiver>>

\* Clone for ShutdownNoticeReceiver: the clone of the watch receiver has seen
\* what the receiver it is cloned from has seen, and has returned nothing
CloneReceiver ==
    /\ ~cloned_receiver.cloned
    /\ cloned_receiver' = [cloned |-> TRUE, changed |-> shutdown_receiver.changed,
                           last_returned_value |-> NoNotice, returned |-> <<>>]
    /\ UNCHANGED <<storeVars, ircVars, webVars, taskVars, exportVars, metrics, authVars, purge_req,
                   http_req, http_request_timeouts, run_state, shutdown_sender, compared,
                   shutdown_receiver>>

\* next_shutdown_notice of the clone, one turn of its loop
CloneNextShutdownNotice ==
    /\ cloned_receiver.cloned
    /\ may_have_more_notices(cloned_receiver.last_returned_value)
    /\ \/ /\ cloned_receiver.changed
          /\ cloned_receiver' =
                [cloned_receiver EXCEPT
                    !.changed = FALSE,
                    !.last_returned_value = IF run_state = Run THEN @
                                            ELSE run_state.notice,
                    !.returned = IF run_state = Run THEN @
                                 ELSE Append(@, run_state.notice)]
       \/ /\ ~cloned_receiver.changed
          /\ shutdown_sender.dropped
          /\ cloned_receiver' = [cloned_receiver EXCEPT
                                    !.last_returned_value = ultimate,
                                    !.returned = Append(@, ultimate)]
    /\ UNCHANGED <<storeVars, ircVars, webVars, taskVars, exportVars, metrics, authVars, purge_req,
                   http_req, http_request_timeouts, run_state, shutdown_sender, compared,
                   shutdown_receiver>>

NextShutdownNotices ==
    \/ \E graceful \in BOOLEAN : InitiateShutdown(graceful)
    \/ NextShutdownSeverity
    \/ SenderDropped
    \/ NextShutdownNotice
    \/ \E a, b, c \in RunStates : Compare("RunState", a, b, c)
    \/ \E a, b, c \in ShutdownNotices : Compare("ShutdownNotice", a, b, c)

\* the shutdown notices: a sender, its receiver, and the order they rely on
SpecShutdownNotices == Init /\ [][NextShutdownNotices]_vars

NextReceivers ==
    \/ \E graceful \in BOOLEAN : InitiateShutdown(graceful)
    \/ NextShutdownSeverity
    \/ SenderDropped
    \/ NextShutdownNotice
    \/ CloneReceiver
    \/ CloneNextShutdownNotice

\* a sender, its receiver and a clone of the receiver, each receiver awaiting
\* next_shutdown_notice again and again
SpecShutdownNoticesFair ==
    /\ Init
    /\ [][NextReceivers]_vars
    /\ WF_vars(NextShutdownNotice)
    /\ WF_vars(CloneNextShutdownNotice)


(* ------------------------------ export --------------------------------- *)
\* IRC tags: a function from tag names to values
NoTags == [k \in {} |-> ""]
Tag(tags, key) == IF key \in DOMAIN tags THEN tags[key] ELSE ""
Insert(tags, key, value) ==
    [k \in DOMAIN tags \cup {key} |-> IF k = key THEN value ELSE tags[k]]

IrcMsg(command, tags) == [command |-> command, tags |-> tags]

\* the message sources a channel's list is made of: chat lines and
\* subscriptions of two users, the moderation messages that may hit them,
\* notices, a room state, and a JOIN that was stored with the rest
Sources ==
    { IrcMsg("PRIVMSG", ("user-id" :> u) @@ ("id" :> m)) :
         u \in {"u1"}, m \in {"m1", "m2"} }
    \cup { IrcMsg("PRIVMSG", ("user-id" :> "u2") @@ ("id" :> "m3")),
           IrcMsg("USERNOTICE", ("user-id" :> "u1") @@ ("id" :> "m4")),
           IrcMsg("USERNOTICE", ("user-id" :> "u2") @@ ("id" :> "m5")),
           IrcMsg("CLEARCHAT", NoTags),
           IrcMsg("CLEARCHAT", ("target-user-id" :> "u1") @@ ("ban-duration" :> "600")),
           IrcMsg("CLEARCHAT", "target-user-id" :> "u2"),
           IrcMsg("CLEARMSG", "target-msg-id" :> "m1"),
           IrcMsg("CLEARMSG", "target-msg-id" :> "m4"),
           IrcMsg("NOTICE", NoTags),
           IrcMsg("NOTICE", "msg-id" :> "host_on"),
           IrcMsg("NOTICE", "msg-id" :> "slow_on"),
           IrcMsg("ROOMSTATE", NoTags),
           IrcMsg("JOIN", NoTags) }

\* ServerMessage::try_from(IRCMessage::parse(message_source)): the variant
\* and the fields of it the export reads
ServerMessage(source) ==
    [source |-> source,
     type |-> CASE source.command = "PRIVMSG" -> "Privmsg"
                [] source.command = "USERNOTICE" -> "UserNotice"
                [] source.command = "CLEARCHAT" -> "ClearChat"
                [] source.command = "CLEARMSG" -> "ClearMsg"
                [] source.command = "NOTICE" -> "Notice"
                [] source.command = "ROOMSTATE" -> "RoomState"
                [] OTHER -> "Generic",
     sender_id |-> Tag(source.tags, "user-id"),
     message_id |-> CASE source.command = "CLEARMSG" -> Tag(source.tags, "target-msg-id")
                      [] source.command = "NOTICE" -> Tag(source.tags, "msg-id")
                      [] OTHER -> Tag(source.tags, "id"),
     action |-> IF source.command # "CLEARCHAT" THEN ""
                ELSE IF "target-user-id" \notin DOMAIN source.tags THEN "ChatCleared"
                ELSE IF "ban-duration" \in DOMAIN source.tags THEN "UserTimedOut"
                ELSE "UserBanned",
     user_id |-> Tag(source.tags, "target-user-id")]

IGNORED_NOTICE_IDS ==
    {"no_permission", "host_on", "host_off", "host_target_went_offline",
     "msg_channel_suspended"}

\* mutant: every kind of message gets a frame
ExportedTypes_and_the_rest ==
    {"Privmsg", "ClearChat", "ClearMsg", "UserNotice", "Notice", "RoomState", "Generic"}

\* the variants append_stored_msg lets through
ExportedTypes == {"Privmsg", "ClearChat", "ClearMsg", "UserNotice", "Notice", "RoomState"}

\* mutant: a timeout or ban hits the chat lines of the user alone
SentBy_privmsg_only(frame, user_id) ==
    /\ frame.original_message.type = "Privmsg"
    /\ frame.original_message.sender_id = user_id

\* the filter of a CLEARCHAT with a target: the frame is a PRIVMSG or
\* USERNOTICE of that sender
SentBy(frame, user_id) ==
    /\ frame.original_message.type \in {"Privmsg", "UserNotice"}
    /\ frame.original_message.sender_id = user_id

\* frames.iter_mut().filter(..).for_each(|frame| frame.deleted_by_moderation = true),
\* hits being the positions of the frames the filter passes
FlagFrames(fs, hits) ==
    [k \in 1 .. Len(fs) |->
        IF k \in hits THEN [fs[k] EXCEPT !.deleted_by_moderation = TRUE] ELSE fs[k]]

\* MessageContainer::append_stored_msg: the frames after one stored message
append_stored_msg(fs, stored_message) ==
    LET server_message == ServerMessage(stored_message.message_source)
        by_sender(frame) == SentBy(frame, server_message.user_id)
        by_message_id(frame) ==
            /\ frame.original_message.type \in {"Privmsg", "UserNotice"}
            /\ frame.original_message.message_id = server_message.message_id
        every(frame) == TRUE
        flagged ==
            CASE server_message.type = "ClearChat" /\ server_message.action = "ChatCleared"
                    -> FlagFrames(fs, {k \in 1 .. Len(fs) : every(fs[k])})
              [] server_message.type = "ClearChat" /\ server_message.action # "ChatCleared"
                    -> FlagFrames(fs, {k \in 1 .. Len(fs) : by_sender(fs[k])})
              [] server_message.type = "ClearMsg" -> FlagFrames(fs, {k \in 1 .. Len(fs) : by_message_id(fs[k])})
              [] OTHER -> fs
    IN  IF server_message.type \notin ExportedTypes THEN fs
        ELSE IF /\ server_message.type = "Notice"
                /\ "msg-id" \in DOMAIN stored_message.message_source.tags
                /\ server_message.message_id \in IGNORED_NOTICE_IDS
        THEN fs
        ELSE Append(flagged, [original_message |-> server_message,
                              time_received |-> stored_message.time_received,
                              deleted_by_moderation |-> FALSE])

\* the replay pass: append_stored_msg over the list, oldest first
RECURSIVE Replay(_, _)
Replay(fs, messages) ==
    IF messages = <<>> THEN fs
    ELSE Replay(append_stored_msg(fs, Head(messages)), Tail(messages))

\* no line: ContainerFrame::export returned None
NoLine == [command |-> "", tags |-> NoTags]

\* mutant: a permanent ban is announced as a timeout
ClearChatNotice_timeout_for_ban(original_message) ==
    IrcMsg("NOTICE",
           "msg-id" :> (CASE original_message.action = "ChatCleared" -> "rm-clearchat"
                          [] OTHER -> "rm-timeout"))

\* the NOTICE a CLEARCHAT is turned into under clearchat_to_notice
ClearChatNotice(original_message) ==
    IrcMsg("NOTICE",
           "msg-id" :> (CASE original_message.action = "ChatCleared" -> "rm-clearchat"
                          [] original_message.action = "UserTimedOut" -> "rm-timeout"
                          [] OTHER -> "rm-permaban"))

\* mutant: rm-deleted is not added
rm_deleted_never(tags, frame) == tags

\* the rm-deleted tag of a flagged frame
rm_deleted(tags, frame) ==
    IF frame.deleted_by_moderation THEN Insert(tags, "rm-deleted", "1") ELSE tags

\* mutant: the CLEARCHAT is rewritten before the moderation messages are
\* looked for, so its NOTICE is let through
export_hides_after_rewrite(frame, options) ==
    IF options.hide_moderated_messages /\ frame.deleted_by_moderation THEN NoLine
    ELSE LET message_to_export ==
                 IF /\ options.clearchat_to_notice
                    /\ frame.original_message.type = "ClearChat"
                 THEN ClearChatNotice(frame.original_message)
                 ELSE frame.original_message.source
         IN  IF /\ options.hide_moderation_messages
                /\ message_to_export.command \in {"CLEARCHAT", "CLEARMSG"}
             THEN NoLine
             ELSE [message_to_export EXCEPT !.tags =
                     rm_deleted(Insert(Insert(@, "historical", "1"),
                                       "rm-received-ts",
                                       timestamp_millis(frame.time_received)),
                                frame)]

\* ContainerFrame::export: the line of a frame, or none; rm-received-ts is
\* the decimal string of timestamp_millis, kept here as the number it spells
export(frame, options) ==
    IF options.hide_moderated_messages /\ frame.deleted_by_moderation THEN NoLine
    ELSE IF /\ options.hide_moderation_messages
            /\ frame.original_message.type \in {"ClearChat", "ClearMsg"}
    THEN NoLine
    ELSE LET message_to_export ==
                 IF /\ options.clearchat_to_notice
                    /\ frame.original_message.type = "ClearChat"
                 THEN ClearChatNotice(frame.original_message)
                 ELSE frame.original_message.source
         IN  [message_to_export EXCEPT !.tags =
                 rm_deleted(Insert(Insert(@, "historical", "1"),
                                   "rm-received-ts", timestamp_millis(frame.time_received)),
                            frame)]

\* MessageContainer::export: the lines of the frames that have one
container_export(fs, options) ==
    SelectSeq([k \in 1 .. Len(fs) |-> export(fs[k], options)],
              LAMBDA line : line # NoLine)

\* the lists of stored messages export_stored_messages is given: up to
\* MaxStored sources, received one tick after the other
SourceLists(n) == UNION {[1 .. k -> Sources] : k \in 0 .. n}

StoredList(first_received, sources) ==
    [k \in 1 .. Len(sources) |->
        [time_received |-> trunc_subsecs(first_received + k),
         message_source |-> sources[k]]]

QueryOptions ==
    [hide_moderation_messages : BOOLEAN, hide_moderated_messages : BOOLEAN,
     clearchat_to_notice : BOOLEAN]

\* export_stored_messages is about to be called on a list fetched from a
\* store with all its shards
InitExportAt(received) ==
    /\ shard_dbs_len = MaxShards
    /\ now = 0
    /\ message = [p \in Partitions |-> {}]
    /\ next_source = 0
    /\ vacuum_passes = <<>>
    /\ vacuumed = NoVacuum
    /\ fetched = NoFetch
    /\ InitIrc /\ InitWeb /\ InitTasks /\ InitHandlers
    /\ \E first_received \in received, sources \in SourceLists(MaxStored) :
          stored_messages = StoredList(first_received, sources)
    /\ query_options = DefaultOptions
    /\ frames = <<>>
    /\ exported_messages = NoExport
    /\ reexported_messages = NoExport

\* lists received from tick 1 on and from tick 2 on
InitExport == InitExportAt(0 .. 1)

\* export_stored_messages(stored_messages, options): the replay pass, then
\* the export of the frames
ExportStoredMessages(options) ==
    /\ exported_messages = NoExport
    /\ query_options' = options
    /\ LET replayed == Replay(<<>>, stored_messages)
       IN  /\ frames' = replayed
           /\ exported_messages' = container_export(replayed, options)
    /\ UNCHANGED <<storeVars, ircVars, webVars, taskVars, handlerVars, stored_messages,
                   reexported_messages>>

NextExport == \E options \in QueryOptions : ExportStoredMessages(options)

SpecExport == InitExport /\ [][NextExport]_vars

\* the same calls on the lists received from tick 1 on: what the replay and
\* the options do does not depend on the time of receipt
InitExportOptions == InitExportAt({0})

SpecExportOptions == InitExportOptions /\ [][NextExport]_vars

\* export_stored_messages as a function of its arguments
export_stored_messages(messages, options) ==
    container_export(Replay(<<>>, messages), options)

\* mutant: the lines are stored again as received now
Reparse_received_now(lines) ==
    [k \in 1 .. Len(lines) |->
        [time_received |-> now, message_source |-> lines[k]]]

\* the exported lines as stored messages: IRCMessage::parse of each line,
\* time_received from its rm-received-ts
Reparse(lines) ==
    [k \in 1 .. Len(lines) |->
        [time_received |-> from_millis(lines[k].tags["rm-received-ts"]),
         message_source |-> lines[k]]]

\* a list is about to be exported and exported again from its own lines
InitReplay ==
    /\ shard_dbs_len = MaxShards
    /\ now = 0
    /\ message = [p \in Partitions |-> {}]
    /\ next_source = 0
    /\ vacuum_passes = <<>>
    /\ vacuumed = NoVacuum
    /\ fetched = NoFetch
    /\ InitIrc /\ InitWeb /\ InitTasks /\ InitHandlers
    /\ \E sources \in SourceLists(MaxStored) : stored_messages = StoredList(1, sources)
    /\ query_options = DefaultOptions
    /\ frames = <<>>
    /\ exported_messages = NoExport
    /\ reexported_messages = NoExport

\* export_stored_messages on the lines of the first call, with its options
ReExport ==
    /\ exported_messages # NoExport
    /\ reexported_messages = NoExport
    /\ reexported_messages' = export_stored_messages(Reparse(exported_messages), query_options)
    /\ UNCHANGED <<storeVars, ircVars, webVars, taskVars, handlerVars, stored_messages, query_options,
                   frames, exported_messages>>

NextReplay ==
    \/ \E options \in QueryOptions : ExportStoredMessages(options)
    \/ ReExport

SpecReplay == InitReplay /\ [][NextReplay]_vars

(* ------------------------- with_authorization ------------------------- *)
\* the values of the Authorization header: none, bytes that are not UTF-8, one
\* the pattern does not match, the token of the user, a token of no row
AuthorizationHeaders == {"", "not utf8", "Basic", "Bearer stored", "Bearer unknown"}

\* the outcomes of a call of the Twitch API: a response with its status, or
\* no response (0)
UpstreamResults == {200, 400, 401, 500, 0}

\* one more call of the Twitch API for the request
Called(req, call, result) ==
    [req EXCEPT !.upstream = Append(@, [call |-> call, result |-> result])]

\* with_authorization reads the header and extracts the access token
AuthStart(authorization_header) ==
    /\ auth_req.pc = "idle"
    /\ auth_req.requests < MaxRequests
    /\ LET req == [NoAuthReq EXCEPT !.requests = auth_req.requests + 1,
                                    !.started = now]
       IN  auth_req' =
             CASE authorization_header = "" -> Rejected(req, "MissingHeader")
               [] authorization_header = "not utf8" ->
                    Rejected(req, "HeaderValueNotUtf8")
               [] authorization_header = "Basic" ->
                    Rejected(req, "MalformedAuthorizationHeader")
               [] authorization_header = "Bearer stored" ->
                    [req EXCEPT !.pc = "get_user_authorization",
                                !.access_token = "stored"]
               [] OTHER ->
                    [req EXCEPT !.pc = "get_user_authorization",
                                !.access_token = "unknown"]
    /\ UNCHANGED <<storeVars, ircVars, webVars, taskVars, exportVars, metrics,
                   purge_req, http_req, http_request_timeouts, shutdownVars,
                   user_authorization, token_req>>

\* get_user_authorization: the row of the token, unless valid_until has passed
AuthGetUserAuthorization ==
    /\ auth_req.pc = "get_user_authorization"
    /\ \/ auth_req' = Rejected(auth_req, "QueryAccessToken")
       \/ auth_req' =
            IF found(user_authorization, auth_req.access_token)
            THEN [auth_req EXCEPT !.pc = "validate_still_valid",
                                  !.authorization = user_authorization,
                                  !.pre_validation_auth = user_authorization]
            ELSE Rejected(auth_req, "Unauthorized")
    /\ UNCHANGED <<storeVars, ircVars, webVars, taskVars, exportVars, metrics,
                   purge_req, http_req, http_request_timeouts, shutdownVars,
                   user_authorization, token_req>>

\* validate_still_valid: skip the check when the last one is recent
AuthValidateStillValid ==
    /\ auth_req.pc = "validate_still_valid"
    /\ auth_req' =
         IF now - auth_req.authorization.twitch_authorization_last_validated
              <= recheck_twitch_auth_after
         THEN [auth_req EXCEPT !.pc = "validated"]
         ELSE [auth_req EXCEPT !.pc = "query_user", !.try_refresh_if_invalid = TRUE]
    /\ UNCHANGED <<storeVars, ircVars, webVars, taskVars, exportVars, metrics,
                   purge_req, http_req, http_request_timeouts, shutdownVars,
                   user_authorization, token_req>>

\* mutant: the retried probe may refresh again
AuthQueryUser_refreshes_again(result) ==
    /\ auth_req.pc = "query_user"
    /\ LET req == Called(auth_req, "query_user", result)
       IN  auth_req' =
             CASE result = 200 ->
                    [req EXCEPT !.pc = "validated",
                                !.authorization.twitch_authorization_last_validated = now]
               [] result = 401 -> [req EXCEPT !.pc = "refresh_token"]
               [] result = 0 -> Rejected(req, "QueryUserDetails")
               [] OTHER -> Rejected(req, "FailedTwitchAccessTokenRefresh")
    /\ UNCHANGED <<storeVars, ircVars, webVars, taskVars, exportVars, metrics,
                   purge_req, http_req, http_request_timeouts, shutdownVars,
                   user_authorization, token_req>>

\* validate_still_valid_inner: the probe GET /helix/users and the match on
\* its result
AuthQueryUser(result) ==
    /\ auth_req.pc = "query_user"
    /\ LET req == Called(auth_req, "query_user", result)
       IN  auth_req' =
             CASE result = 200 ->
                    [req EXCEPT !.pc = "validated",
                                !.authorization.twitch_authorization_last_validated = now]
               [] result = 401 /\ req.try_refresh_if_invalid ->
                    [req EXCEPT !.pc = "refresh_token"]
               [] result = 401 -> Rejected(req, "Unauthorized")
               [] result = 0 -> Rejected(req, "QueryUserDetails")
               [] OTHER -> Rejected(req, "FailedTwitchAccessTokenRefresh")
    /\ UNCHANGED <<storeVars, ircVars, webVars, taskVars, exportVars, metrics,
                   purge_req, http_req, http_request_timeouts, shutdownVars,
                   user_authorization, token_req>>

\* refresh_token, and the recursive call with try_refresh_if_invalid = false
AuthRefreshToken(result) ==
    /\ auth_req.pc = "refresh_token"
    /\ LET req == Called(auth_req, "refresh_token", result)
       IN  auth_req' =
             CASE result = 200 ->
                    [req EXCEPT !.pc = "query_user",
                                !.try_refresh_if_invalid = FALSE,
                                !.authorization.twitch_token = @ + 1]
               [] result = 400 -> Rejected(req, "Unauthorized")
               [] OTHER -> Rejected(req, "FailedTwitchAccessTokenRefresh")
    /\ UNCHANGED <<storeVars, ircVars, webVars, taskVars, exportVars, metrics,
                   purge_req, http_req, http_request_timeouts, shutdownVars,
                   user_authorization, token_req>>

\* update_user_authorization when the validation changed the authorization,
\* then the handler runs
AuthUpdateUserAuthorization ==
    /\ auth_req.pc = "validated"
    /\ IF auth_req.pre_validation_auth # auth_req.authorization
       THEN \/ /\ auth_req' = Rejected(auth_req, "UpdateUserAuthorization")
               /\ UNCHANGED user_authorization
            \/ /\ user_authorization' = auth_req.authorization
               /\ auth_req' = [auth_req EXCEPT !.pc = "idle", !.next_ran = TRUE]
       ELSE /\ auth_req' = [auth_req EXCEPT !.pc = "idle", !.next_ran = TRUE]
            /\ UNCHANGED user_authorization
    /\ UNCHANGED <<storeVars, ircVars, webVars, taskVars, exportVars, metrics,
                   purge_req, http_req, http_request_timeouts, shutdownVars,
                   token_req>>

NextAuth ==
    \/ Tick
    \/ \E authorization_header \in AuthorizationHeaders : AuthStart(authorization_header)
    \/ AuthGetUserAuthorization
    \/ AuthValidateStillValid
    \/ \E result \in UpstreamResults : AuthQueryUser(result)
    \/ \E result \in UpstreamResults : AuthRefreshToken(result)
    \/ AuthUpdateUserAuthorization

\* requests of the user, one after the other, under with_authorization
SpecAuth == Init /\ [][NextAuth]_vars

(* ------------------- POST /auth/extend, /auth/revoke ------------------ *)
\* the other of the two requests
OtherOp(op) == CHOOSE other \in TokenOps : other # op

\* UPDATE user_authorization SET .. WHERE access_token = $1: the row after
\* the statement, which changes a row only if there is one
update_user_authorization(row, authorization) ==
    IF row = NoUserAuthorization THEN row ELSE authorization

\* the number of rows a statement WHERE access_token = $1 found
rows_affected(row) == IF row = NoUserAuthorization THEN 0 ELSE 1

\* a request arrives with the token of the user; the two requests overlap
\* when one arrives while the other is in progress
TokenStart(op) ==
    /\ token_req[op].pc = "idle"
    /\ token_req[op].requests < MaxTokenRequests
    /\ LET other == OtherOp(op)
           busy == token_req[other].pc # "idle"
       IN  token_req' =
             [token_req EXCEPT
                ![op] = [NoTokenReq EXCEPT !.pc = "get_user_authorization",
                                           !.overlaps = busy,
                                           !.requests = token_req[op].requests + 1],
                ![other].overlaps = @ \/ busy]
    /\ UNCHANGED <<storeVars, ircVars, webVars, taskVars, exportVars, metrics,
                   purge_req, http_req, http_request_timeouts, shutdownVars,
                   user_authorization, auth_req>>

\* with_authorization: get_user_authorization
TokenGetUserAuthorization(op) ==
    /\ token_req[op].pc = "get_user_authorization"
    /\ \/ token_req' = [token_req EXCEPT ![op] = Rejected(@, "QueryAccessToken")]
       \/ token_req' =
            [token_req EXCEPT ![op] =
               IF found(user_authorization, "stored")
               THEN [@ EXCEPT !.pc = "validate_still_valid",
                              !.authorization = user_authorization]
               ELSE Rejected(@, "Unauthorized")]
    /\ UNCHANGED <<storeVars, ircVars, webVars, taskVars, exportVars, metrics,
                   purge_req, http_req, http_request_timeouts, shutdownVars,
                   user_authorization, auth_req>>

\* the ways validate_still_valid ends once the last validation is too old
ValidationOutcomes == {"valid", "refreshed", "Unauthorized", "QueryUserDetails",
                       "FailedTwitchAccessTokenRefresh"}

\* with_authorization: validate_still_valid, skipped when the last validation
\* is recent
TokenValidateStillValid(op, outcome) ==
    /\ token_req[op].pc = "validate_still_valid"
    /\ LET req == token_req[op]
           recent == now - req.authorization.twitch_authorization_last_validated
                        <= recheck_twitch_auth_after
       IN  /\ recent => outcome = "valid"
           /\ token_req' =
                [token_req EXCEPT ![op] =
                   CASE recent -> [req EXCEPT !.pc = "handler"]
                     [] outcome = "valid" ->
                          [req EXCEPT !.pc = "update_user_authorization",
                              !.authorization.twitch_authorization_last_validated = now]
                     [] outcome = "refreshed" ->
                          [req EXCEPT !.pc = "update_user_authorization",
                              !.authorization.twitch_authorization_last_validated = now,
                              !.authorization.twitch_token = @ + 1]
                     [] OTHER -> Rejected(req, outcome)]
    /\ UNCHANGED <<storeVars, ircVars, webVars, taskVars, exportVars, metrics,
                   purge_req, http_req, http_request_timeouts, shutdownVars,
                   user_authorization, auth_req>>

\* with_authorization: the validation changed the authorization and it is
\* written back
TokenUpdateUserAuthorization(op) ==
    /\ token_req[op].pc = "update_user_authorization"
    /\ \/ /\ token_req' = [token_req EXCEPT ![op] = Rejected(@, "UpdateUserAuthorization")]
          /\ UNCHANGED user_authorization
       \/ /\ user_authorization' =
               update_user_authorization(user_authorization, token_req[op].authorization)
          /\ token_req' = [token_req EXCEPT ![op].pc = "handler"]
    /\ UNCHANGED <<storeVars, ircVars, webVars, taskVars, exportVars, metrics,
                   purge_req, http_req, http_request_timeouts, shutdownVars, auth_req>>

\* extend_token: the new expiry, one UPDATE, 200
ExtendToken ==
    /\ token_req["extend"].pc = "handler"
    /\ LET authorization ==
             [token_req["extend"].authorization EXCEPT
                !.valid_until = now + sessions_expire_after]
       IN  \/ /\ token_req' = [token_req EXCEPT
                    !["extend"] = Rejected([@ EXCEPT !.authorization = authorization],
                                           "UpdateUserAuthorization")]
              /\ UNCHANGED user_authorization
           \/ /\ user_authorization' =
                   update_user_authorization(user_authorization, authorization)
              /\ token_req' = [token_req EXCEPT
                    !["extend"] = [@ EXCEPT !.pc = "idle", !.response = 200,
                                            !.authorization = authorization,
                                            !.rows = rows_affected(user_authorization)]]
    /\ UNCHANGED <<storeVars, ircVars, webVars, taskVars, exportVars, metrics,
                   purge_req, http_req, http_request_timeouts, shutdownVars, auth_req>>

\* revoke_token: one DELETE, 204
RevokeToken ==
    /\ token_req["revoke"].pc = "handler"
    /\ \/ /\ token_req' = [token_req EXCEPT
                !["revoke"] = Rejected(@, "AuthorizationRevokeFailed")]
          /\ UNCHANGED user_authorization
       \/ /\ user_authorization' = NoUserAuthorization
          /\ token_req' = [token_req EXCEPT
                !["revoke"] = [@ EXCEPT !.pc = "idle", !.response = 204,
                                        !.rows = rows_affected(user_authorization)]]
    /\ UNCHANGED <<storeVars, ircVars, webVars, taskVars, exportVars, metrics,
                   purge_req, http_req, http_request_timeouts, shutdownVars, auth_req>>

NextTokens ==
    \/ Tick
    \/ \E op \in TokenOps : TokenStart(op)
    \/ \E op \in TokenOps : TokenGetUserAuthorization(op)
    \/ \E op \in TokenOps, outcome \in ValidationOutcomes :
          TokenValidateStillValid(op, outcome)
    \/ \E op \in TokenOps : TokenUpdateUserAuthorization(op)
    \/ ExtendToken
    \/ RevokeToken

\* extend and revoke requests with the token of the user, in any interleaving
SpecTokens == Init /\ [][NextTokens]_vars

(* ------------------- the read path and last_access -------------------- *)
\* the rows a channel may have when a request comes: none, one last accessed
\* exactly 30 minutes before, one accessed just now
TouchRows ==
    {NoRow,
     [present |-> TRUE, last_access |-> 0 - touch_after, ignored_at |-> None],
     [present |-> TRUE, last_access |-> 0, ignored_at |-> None]}

InitTouch ==
    /\ InitStore /\ InitIrc /\ InitTasks /\ InitNoExport /\ InitHandlers
    /\ \E row \in TouchRows : channel = [c \in Channels |-> row]
    /\ user_login = ""
    /\ ignore_req = NoIgnoreReq
    /\ delayed_purges = 0
    /\ purged_twice = FALSE
    /\ get_req = NoGetReq

NextTouch ==
    \/ Tick
    \/ \E c \in Channels : GetStart(c)
    \/ GetIsChannelIgnored
    \/ GetGetMessages
    \/ GetRespond
    \/ BgJoinIfNeeded
    \/ BgRecheck
    \/ BgTouch
    \/ \E c \in Channels, should_be_ignored \in BOOLEAN :
          SetIgnoredStart(c, should_be_ignored)
    \/ SetChannelIgnored
    \/ SetIgnoredPurge
    \/ DelayedPurge
    \/ IrcSync(user_login)

\* GET /recent-messages and POST /ignored of one user, the clock running, on
\* a table `channel` with rows of different ages
SpecTouch == InitTouch /\ [][NextTouch]_vars

(* -------------------- vacuum ticks and long passes --------------------- *)
\* run_task_vacuum_old_messages: the loop spawns the passes and goes back to
\* check_interval.tick() without awaiting them, so the next tick comes
\* vacuum_messages_every later whether the passes have ended or not. Here it
\* comes while passes of the last tick are in progress (those of one more
\* tick at most are followed).
VacuumTickOverrun ==
    /\ tasks["vacuum_worker"] = "running"
    /\ vacuum_passes # <<>>
    /\ Len(vacuum_passes) <= shard_dbs_len + 1
    /\ vacuum_passes' = vacuum_passes \o
          [i \in 1 .. shard_dbs_len + 1 |->
              [partition_id |-> i - 1, pc |-> "start", channels |-> <<>>]]
    /\ fetched' = NoFetch
    /\ UNCHANGED <<taskVars, exportVars, handlerVars, shard_dbs_len, now, message,
                   next_source, vacuumed, ircVars, webVars>>

NextVacuumTicks ==
    \/ Tick
    \/ \E c \in Channels : StoreMessage(c)
    \/ VacuumTick
    \/ VacuumTickOverrun
    \/ \E i \in 1 .. Len(vacuum_passes) : VacuumSelect(i)
    \/ \E i \in 1 .. Len(vacuum_passes) : VacuumDelete(i)
    \/ \E i \in 1 .. Len(vacuum_passes) : VacuumDeleteFails(i)

\* the vacuum with ticks that do not wait for the passes
SpecVacuumTicks == Init /\ [][NextVacuumTicks]_vars

(* ------------------------------ claims -------------------------------- *)
\* the rows now stored for a channel, wherever they are
StoredRows(channel_login) ==
    UNION {ChannelRows(p, channel_login) : p \in Partitions}

\* the rows the last vacuum DELETE found that had not expired
Unexpired(rows, t) == {r \in rows : ~(r.time_received < t - messages_expire_after)}

\* the n newest of a set of rows
Newest(rows, n) ==
    {r \in rows : Cardinality({q \in rows : q.time_received > r.time_received}) < n}

DistinctTimes(rows) ==
    \A r, q \in rows : r # q => r.time_received # q.time_received

Elements(s) == {s[i] : i \in 1 .. Len(s)}

\* C1: after a vacuum DELETE for channel c, with no insert for c since, at most
\* max_buffer_size messages of c are stored, whatever the channel held.
C1_VacuumBoundsCount ==
    vacuumed # NoVacuum =>
        Cardinality(StoredRows(vacuumed.channel_login)) <= max_buffer_size

\* C2: after a vacuum DELETE for channel c at time now, no stored message of c
\* is older than now - messages_expire_after; a channel whose messages had all
\* expired has no row left and is not listed by SELECT DISTINCT any more.
C2_VacuumExpires ==
    vacuumed # NoVacuum =>
        /\ \A r \in StoredRows(vacuumed.channel_login) :
              ~(r.time_received < vacuumed.now - messages_expire_after)
        /\ Unexpired(vacuumed.before, vacuumed.now) = {} =>
              /\ StoredRows(vacuumed.channel_login) = {}
              /\ \A p \in Partitions :
                    vacuumed.channel_login \notin channels_with_messages(p)

\* a vacuum DELETE has run on a channel all of whose messages had expired
C2_Witness ==
    /\ vacuumed # NoVacuum
    /\ vacuumed.before # {}
    /\ Unexpired(vacuumed.before, vacuumed.now) = {}

\* the case of C3: the DELETE found more than max_buffer_size unexpired
\* messages, with pairwise distinct time_received
C3_Case ==
    /\ vacuumed # NoVacuum
    /\ Cardinality(Unexpired(vacuumed.before, vacuumed.now)) > max_buffer_size
    /\ DistinctTimes(Unexpired(vacuumed.before, vacuumed.now))

\* C3: in that case the vacuum leaves exactly the max_buffer_size newest
\* messages, and get_messages without a limit returns exactly these, in
\* ascending time_received order.
C3_VacuumKeepsNewest ==
    C3_Case =>
        LET kept == Newest(Unexpired(vacuumed.before, vacuumed.now), max_buffer_size)
        IN  /\ StoredRows(vacuumed.channel_login) = kept
            /\ Cardinality(kept) = max_buffer_size
            /\ (fetched # NoFetch /\ fetched.channel_login = vacuumed.channel_login) =>
                  /\ Elements(fetched.messages) = {StoredMessage(r) : r \in kept}
                  /\ Len(fetched.messages) = max_buffer_size
                  /\ \A i, j \in 1 .. Len(fetched.messages) :
                        i < j => fetched.messages[i].time_received
                                    < fetched.messages[j].time_received

\* the vacuum has trimmed such a channel and its messages have been read
C3_Witness ==
    /\ C3_Case
    /\ fetched # NoFetch
    /\ fetched.channel_login = vacuumed.channel_login

\* C4: a message list returned for (before, after) holds only messages with
\* after < time_received < before; asked with before = T + 1 alone it holds
\* every stored message whose millisecond timestamp is T.
C4_WindowExclusive ==
    fetched # NoFetch =>
        /\ \A i \in 1 .. Len(fetched.messages) :
              /\ fetched.after # None =>
                    fetched.messages[i].time_received > from_millis(fetched.after)
              /\ fetched.before # None =>
                    fetched.messages[i].time_received < from_millis(fetched.before)
        /\ ( /\ fetched.before # None
             /\ fetched.after = None
             /\ fetched.limit = None
             /\ Cardinality(StoredRows(fetched.channel_login)) <= max_buffer_size ) =>
              \A r \in StoredRows(fetched.channel_login) :
                 timestamp_millis(r.time_received) = fetched.before - 1 =>
                    StoredMessage(r) \in Elements(fetched.messages)

\* C5: get_messages returns at most min(limit, max_buffer_size) messages (at
\* most max_buffer_size without a limit), they are stored messages of the
\* channel, none older than a stored message left out, oldest first.
C5_LimitNewestAscending ==
    fetched # NoFetch =>
        LET stored == {StoredMessage(r) : r \in StoredRows(fetched.channel_login)}
            n == Len(fetched.messages)
        IN  /\ n <= max_buffer_size
            /\ fetched.limit # None => n <= fetched.limit
            /\ Elements(fetched.messages) \subseteq stored
            /\ Cardinality(Elements(fetched.messages)) = n
            /\ \A m \in Elements(fetched.messages) :
                  \A q \in stored \ Elements(fetched.messages) :
                     q.time_received <= m.time_received
            /\ \A i, j \in 1 .. n :
                  i < j => fetched.messages[i].time_received
                              <= fetched.messages[j].time_received

\* a read with a limit that cut off older messages of different times
C5_Witness ==
    /\ fetched # NoFetch
    /\ fetched.limit # None
    /\ Len(fetched.messages) = fetched.limit
    /\ fetched.limit > 1
    /\ fetched.messages[1].time_received < fetched.messages[2].time_received
    /\ Cardinality(StoredRows(fetched.channel_login)) > fetched.limit

\* C6: while a channel is ignored, no step of the write path adds a row of the
\* channel to storage.
C6_NoInsertWhileIgnored ==
    [][(user_login \in Channels /\ is_channel_ignored(user_login)) =>
          StoredRows(user_login)' \subseteq StoredRows(user_login)]_vars

\* C7: a GET /recent-messages whose ignored check saw the channel ignored has
\* ended with 403 and nothing else: no fetch, no spawned task, no join, no
\* last_access update; and 403 is given to no other request.
C7_IgnoredGetRejected ==
    /\ get_req.ignored =>
          /\ get_req.response = 403
          /\ get_req.pc = "idle"
          /\ get_req.task = "idle"
          /\ get_req.log = <<>>
          /\ get_req.stored_messages = <<>>
    /\ get_req.response = 403 => get_req.ignored

\* a GET on an ignored channel that still has stored messages was rejected
C7_Witness ==
    /\ get_req.ignored
    /\ get_req.response = 403
    /\ StoredRows(user_login) # {}

\* C8: once the second purge of set_ignored(c, true) has run, and while c is
\* ignored, storage holds no message of c and get_messages(c) returns the
\* empty list, whatever the ingestion of c does.
C8_EmptyAfterSecondPurge ==
    (purged_twice /\ user_login \in Channels /\ is_channel_ignored(user_login)) =>
        /\ StoredRows(user_login) = {}
        /\ get_messages(user_login, None) = {<<>>}

\* C9, the order of the operations: a failed flag update ends the request
\* with 500 and nothing issued; ignored=true issues PART, then the purge, then
\* the delayed purge; ignored=false issues JOIN alone.
C9_Sequence ==
    /\ ignore_req.pc = "set_channel_ignored" => ignore_req.log = <<>>
    /\ ignore_req.response = 500 =>
          /\ ignore_req.pc = "idle"
          /\ ignore_req.log = <<>>
          /\ delayed_purges = 0
    /\ ignore_req.pc = "purge_messages" =>
          /\ ignore_req.should_be_ignored
          /\ ignore_req.log = <<"part">>
          /\ user_login \notin wanted
          /\ is_channel_ignored(user_login)
    /\ (ignore_req.response = 204 /\ ignore_req.should_be_ignored) =>
          /\ user_login \notin wanted
          /\ \/ /\ ignore_req.log = <<"part", "purge_messages">>
                /\ delayed_purges = 1
             \/ /\ ignore_req.log = <<"part", "purge_messages", "purge_messages">>
                /\ delayed_purges = 0
    /\ (ignore_req.response = 204 /\ ~ignore_req.should_be_ignored) =>
          /\ ignore_req.log = <<"join">>
          /\ user_login \in wanted
          /\ delayed_purges = 0

\* C9: the operations of POST /ignored come in that order, and a request with
\* ignored=true whose flag update succeeded goes on to both purges.
C9_SetIgnoredOperations ==
    /\ []C9_Sequence
    /\ (ignore_req.pc = "purge_messages") ~>
          (ignore_req.log = <<"part", "purge_messages", "purge_messages">>)

\* a request with ignored=true has parted, purged, and purged again
C9_Witness ==
    /\ ignore_req.should_be_ignored
    /\ ignore_req.response = 204
    /\ ignore_req.log = <<"part", "purge_messages", "purge_messages">>

\* C11: of two stored messages of one channel, the one the forward worker
\* handled first (the smaller message_source number) has the smaller or equal
\* time_received, and a list get_messages returns never has the later-handled
\* of two messages with different timestamps before the earlier-handled.
C11_TimeReceivedMonotonic ==
    /\ \A c \in Channels : \A r, q \in StoredRows(c) :
          r.message_source < q.message_source => r.time_received <= q.time_received
    /\ fetched # NoFetch =>
          \A i, j \in 1 .. Len(fetched.messages) :
             (i < j /\ fetched.messages[i].time_received
                          # fetched.messages[j].time_received) =>
                fetched.messages[i].message_source < fetched.messages[j].message_source

\* a read returned two messages of a channel with different timestamps
C11_Witness ==
    /\ fetched # NoFetch
    /\ Len(fetched.messages) >= 2
    /\ fetched.messages[1].time_received # fetched.messages[2].time_received

\* C12: an INSERT task that takes effect leaves no task behind that holds an
\* earlier-handled message of a channel it inserts: the INSERTs of successive
\* chunks take effect in the order of the chunks.
C12_ChunkInsertsInOrder ==
    [][\A task \in insert_tasks :
          (task \notin insert_tasks' /\ message' # message) =>
             \A other \in insert_tasks \ {task} :
                \A i \in 1 .. Len(task.messages), j \in 1 .. Len(other.messages) :
                   task.messages[i].channel_login = other.messages[j].channel_login =>
                      task.messages[i].message_source < other.messages[j].message_source]_vars

\* C13: every INSERT task append_messages has spawned holds at least one and
\* at most forwarder_max_chunk_size messages, so every chunk handed over does.
C13_ChunkSizeBounded ==
    \A task \in insert_tasks :
       /\ Len(task.messages) >= 1
       /\ Len(task.messages) <= forwarder_max_chunk_size

\* C14: when the chunk worker exits, every message then in the internal queue
\* or in its chunk has been handed to append_messages.
C14_DrainedOnShutdown ==
    [][(tasks["chunk_worker"] = "running" /\ tasks'["chunk_worker"] = "exited") =>
          \A m \in Elements(rx) \cup Elements(chunk_worker.chunk) :
             \E task \in insert_tasks' : m \in Elements(task.messages)]_vars

\* C15: once the shutdown signal is cancelled, the forward worker, the chunk
\* worker, the join/part loop and the vacuum loop all come to have exited.
C15_TasksTerminate ==
    shutdown_signal ~> (\A task \in TaskNames : tasks[task] = "exited")

\* all four have exited, the chunk worker out of its sleep and the join/part
\* loop out of its query
C15_Witness ==
    /\ shutdown_signal
    /\ \A task \in TaskNames : tasks[task] = "exited"
    /\ chunk_worker.pc = "sleep"
    /\ join_parter.pc = "query"

\* C16: an iteration of the join/part loop whose query fails leaves the wanted
\* set as it was, and the loop waits for its next tick.
C16_FailedQuerySkipsIteration ==
    [][(join_parter.pc = "query" /\ join_parter'.result = "failed") =>
          /\ wanted' = wanted
          /\ join_parter'.pc = "tick"
          /\ tasks'["channel_join_parter"] = "running"]_vars

\* a query failed while the client wanted a channel that is no candidate
C16_Witness ==
    /\ join_parter.result = "failed"
    /\ wanted # {}
    /\ wanted # get_channel_logins_to_join

\* the channels with ignored_at null and last_access > now - channels_expire_after
Candidates ==
    {c \in Channels : /\ channel[c].present
                      /\ channel[c].ignored_at = None
                      /\ channel[c].last_access > now - channels_expire_after}

Command(i) == stored_messages[i].message_source.command
TagOf(i, key) == Tag(stored_messages[i].message_source.tags, key)
HasTag(i, key) == key \in DOMAIN stored_messages[i].message_source.tags
ExportedCommands == {"PRIVMSG", "CLEARCHAT", "CLEARMSG", "USERNOTICE", "NOTICE", "ROOMSTATE"}
IgnoredNoticeIds ==
    {"no_permission", "host_on", "host_off", "host_target_went_offline",
     "msg_channel_suspended"}

\* message i of the list gets a frame; its frame is the FrameOf(i)-th
HasFrame(i) ==
    /\ Command(i) \in ExportedCommands
    /\ ~(Command(i) = "NOTICE" /\ HasTag(i, "msg-id")
            /\ TagOf(i, "msg-id") \in IgnoredNoticeIds)
FrameOf(i) == Cardinality({k \in 1 .. i : HasFrame(k)})

\* the later message j is a moderation message that hits message i
Moderates(j, i) ==
    /\ j > i
    /\ \/ Command(j) = "CLEARCHAT" /\ ~HasTag(j, "target-user-id")
       \/ /\ Command(j) = "CLEARCHAT" /\ HasTag(j, "target-user-id")
          /\ Command(i) \in {"PRIVMSG", "USERNOTICE"}
          /\ TagOf(i, "user-id") = TagOf(j, "target-user-id")
       \/ /\ Command(j) = "CLEARMSG"
          /\ Command(i) \in {"PRIVMSG", "USERNOTICE"}
          /\ TagOf(i, "id") = TagOf(j, "target-msg-id")

\* C18: after the replay pass the frame of message i is flagged
\* deleted_by_moderation exactly when a later message of the list is a
\* CLEARCHAT without target, a CLEARCHAT for the sender of the PRIVMSG or
\* USERNOTICE i, or a CLEARMSG for the message id of the PRIVMSG or USERNOTICE i.
C18_ReplayFlags ==
    exported_messages # NoExport =>
        /\ Len(frames) = Cardinality({i \in 1 .. Len(stored_messages) : HasFrame(i)})
        /\ \A i \in 1 .. Len(stored_messages) :
              HasFrame(i) =>
                 (frames[FrameOf(i)].deleted_by_moderation
                     <=> \E j \in 1 .. Len(stored_messages) : Moderates(j, i))

\* a list was replayed in which a timeout hit the subscription of a user and
\* left another frame alone
C18_Witness ==
    /\ exported_messages # NoExport
    /\ \E k \in 1 .. Len(frames) :
          /\ frames[k].deleted_by_moderation
          /\ frames[k].original_message.type = "UserNotice"
    /\ \E k \in 1 .. Len(frames) : ~frames[k].deleted_by_moderation
    /\ \E i \in 1 .. Len(stored_messages) : HasTag(i, "target-user-id")

\* the k-th smallest member of a set of indices
Nth(I, k) == CHOOSE i \in I : Cardinality({x \in I : x <= i}) = k

\* the line is what the stored message m is exported as
ComesFrom(line, m) ==
    /\ m.message_source.command \in ExportedCommands
    /\ "rm-received-ts" \in DOMAIN line.tags
    /\ line.tags["rm-received-ts"] = timestamp_millis(m.time_received)
    /\ \/ /\ line.command = m.message_source.command
          /\ \A key \in DOMAIN m.message_source.tags :
                key \in DOMAIN line.tags /\ line.tags[key] = m.message_source.tags[key]
       \/ /\ m.message_source.command = "CLEARCHAT"
          /\ line.command = "NOTICE"
          /\ Tag(line.tags, "msg-id") \in {"rm-clearchat", "rm-timeout", "rm-permaban"}

\* C19: the exported lines come from stored PRIVMSG, CLEARCHAT, CLEARMSG,
\* USERNOTICE, NOTICE or ROOMSTATE messages, one line at most per stored
\* message and in the order of the list, and none is a NOTICE with one of the
\* ignored msg-ids.
C19_ExportedKinds ==
    exported_messages # NoExport =>
        /\ \E I \in SUBSET (1 .. Len(stored_messages)) :
              /\ Cardinality(I) = Len(exported_messages)
              /\ \A k \in 1 .. Len(exported_messages) :
                    ComesFrom(exported_messages[k], stored_messages[Nth(I, k)])
        /\ \A k \in 1 .. Len(exported_messages) :
              /\ exported_messages[k].command \in ExportedCommands
              /\ ~(/\ exported_messages[k].command = "NOTICE"
                   /\ Tag(exported_messages[k].tags, "msg-id") \in IgnoredNoticeIds)

\* a list with an ignored NOTICE and a JOIN in it was exported to one line
C19_Witness ==
    /\ exported_messages # NoExport
    /\ Len(exported_messages) = 1
    /\ \E i \in 1 .. Len(stored_messages) : Command(i) = "JOIN"
    /\ \E i \in 1 .. Len(stored_messages) :
          Command(i) = "NOTICE" /\ TagOf(i, "msg-id") = "host_on"

\* the frames that have a line under the options of the call
ExportedFrames ==
    SelectSeq(frames, LAMBDA frame :
       /\ ~(query_options.hide_moderated_messages /\ frame.deleted_by_moderation)
       /\ ~(/\ query_options.hide_moderation_messages
            /\ frame.original_message.source.command \in {"CLEARCHAT", "CLEARMSG"}))

\* C20: every exported line has historical=1 and rm-received-ts equal to the
\* time_received of its message in milliseconds, and has rm-deleted=1 exactly
\* when its frame is flagged deleted_by_moderation.
C20_ExportTags ==
    exported_messages # NoExport =>
        LET exported == ExportedFrames
        IN  /\ Len(exported_messages) = Len(exported)
            /\ \A k \in 1 .. Len(exported_messages) :
                  LET tags == exported_messages[k].tags
                  IN  /\ "historical" \in DOMAIN tags /\ tags["historical"] = "1"
                      /\ "rm-received-ts" \in DOMAIN tags
                      /\ tags["rm-received-ts"]
                            = exported[k].time_received \div TicksPerMs
                      /\ ("rm-deleted" \in DOMAIN tags)
                            <=> exported[k].deleted_by_moderation
                      /\ "rm-deleted" \in DOMAIN tags => tags["rm-deleted"] = "1"

\* lines were exported with and without rm-deleted, received in different
\* milliseconds
C20_Witness ==
    /\ exported_messages # NoExport
    /\ \E k, l \in 1 .. Len(exported_messages) :
          /\ "rm-deleted" \in DOMAIN exported_messages[k].tags
          /\ "rm-deleted" \notin DOMAIN exported_messages[l].tags
          /\ exported_messages[k].tags["rm-received-ts"]
                # exported_messages[l].tags["rm-received-ts"]

Moderated(i) == \E j \in 1 .. Len(stored_messages) : Moderates(j, i)

\* the stored messages that keep their line under the options of the call
Retained ==
    {i \in 1 .. Len(stored_messages) :
        /\ HasFrame(i)
        /\ ~(query_options.hide_moderated_messages /\ Moderated(i))
        /\ ~(/\ query_options.hide_moderation_messages
             /\ Command(i) \in {"CLEARCHAT", "CLEARMSG"})}

\* C21: with hide_moderated_messages the output has no line of a frame
\* flagged deleted; with hide_moderation_messages it has no line of a
\* CLEARCHAT or CLEARMSG, with or without clearchat_to_notice; every other
\* frame has its line, so with neither option every frame has one.
C21_HideOptions ==
    exported_messages # NoExport =>
        /\ LET retained == Retained
           IN  /\ Len(exported_messages) = Cardinality(retained)
               /\ \A k \in 1 .. Len(exported_messages) :
                     ComesFrom(exported_messages[k],
                               stored_messages[Nth(retained, k)])
        /\ query_options.hide_moderated_messages =>
              \A k \in 1 .. Len(exported_messages) :
                 "rm-deleted" \notin DOMAIN exported_messages[k].tags
        /\ query_options.hide_moderation_messages =>
              \A k \in 1 .. Len(exported_messages) :
                 /\ exported_messages[k].command \notin {"CLEARCHAT", "CLEARMSG"}
                 /\ Tag(exported_messages[k].tags, "msg-id")
                       \notin {"rm-clearchat", "rm-timeout", "rm-permaban"}
        /\ (~query_options.hide_moderated_messages
               /\ ~query_options.hide_moderation_messages) =>
              Len(exported_messages) = Len(frames)

\* the chat lines of a user followed by a timeout of that user were exported
\* with hide_moderated_messages, hide_moderation_messages and
\* clearchat_to_notice: nothing is left of them
C21_Witness ==
    /\ exported_messages = <<>>
    /\ query_options.hide_moderated_messages
    /\ query_options.hide_moderation_messages
    /\ query_options.clearchat_to_notice
    /\ Len(stored_messages) = MaxStored
    /\ \A i \in 1 .. MaxStored - 1 :
          Command(i) = "PRIVMSG" /\ TagOf(i, "user-id") = "u1"
    /\ Command(MaxStored) = "CLEARCHAT" /\ TagOf(MaxStored, "target-user-id") = "u1"

\* the msg-id of the NOTICE that stands for a CLEARCHAT
NoticeId(i) ==
    IF ~HasTag(i, "target-user-id") THEN "rm-clearchat"
    ELSE IF HasTag(i, "ban-duration") THEN "rm-timeout"
    ELSE "rm-permaban"

\* the line of stored message i, for i in retained, the value of Retained
LineOf(retained, i) == exported_messages[Cardinality({k \in retained : k <= i})]

\* the line of message i is the message itself, with the tags of the export
\* added to its own
NotRewritten(line, i) ==
    /\ line.command = Command(i)
    /\ \A key \in DOMAIN stored_messages[i].message_source.tags :
          Tag(line.tags, key) = TagOf(i, key)
    /\ DOMAIN line.tags \subseteq
          DOMAIN stored_messages[i].message_source.tags
             \cup {"historical", "rm-received-ts", "rm-deleted"}

\* C22 as stated: with clearchat_to_notice set and hide_moderation_messages
\* unset every CLEARCHAT frame has a NOTICE in the output.
C22_EveryClearChatIsNotice ==
    (/\ exported_messages # NoExport
     /\ query_options.clearchat_to_notice
     /\ ~query_options.hide_moderation_messages) =>
        Cardinality({i \in 1 .. Len(stored_messages) : Command(i) = "CLEARCHAT"})
           = Cardinality({k \in 1 .. Len(exported_messages) :
                             /\ exported_messages[k].command = "NOTICE"
                             /\ Tag(exported_messages[k].tags, "msg-id")
                                   \in {"rm-clearchat", "rm-timeout", "rm-permaban"}})

\* C22: with clearchat_to_notice set and hide_moderation_messages unset,
\* every CLEARCHAT frame that hide_moderated_messages does not elide is
\* exported as a NOTICE with msg-id rm-clearchat for a chat clear, rm-timeout
\* for a timeout and rm-permaban for a permanent ban, and the frames of other
\* kinds are not rewritten; without clearchat_to_notice a CLEARCHAT is
\* exported as a CLEARCHAT.
C22_ClearChatToNotice ==
    exported_messages # NoExport =>
        LET retained == Retained
        IN  /\ Len(exported_messages) = Cardinality(retained)
            /\ \A i \in retained :
                  LET line == LineOf(retained, i)
                  IN  IF Command(i) = "CLEARCHAT" /\ query_options.clearchat_to_notice
                      THEN /\ line.command = "NOTICE"
                           /\ Tag(line.tags, "msg-id") = NoticeId(i)
                      ELSE NotRewritten(line, i)

\* a chat clear, a timeout and a ban were exported as their three NOTICEs
C22_Witness ==
    /\ exported_messages # NoExport
    /\ query_options.clearchat_to_notice
    /\ ~query_options.hide_moderation_messages
    /\ \A id \in {"rm-clearchat", "rm-timeout", "rm-permaban"} :
          \E k \in 1 .. Len(exported_messages) :
             /\ exported_messages[k].command = "NOTICE"
             /\ Tag(exported_messages[k].tags, "msg-id") = id

GetCalls == {get_req.log[k] : k \in 1 .. Len(get_req.log)}

\* C24: a GET /recent-messages whose ignored check or message fetch failed
\* with a storage error is answered 500 internal_server_error, has no
\* messages, and neither asks for a join nor touches the channel.
C24_StorageErrorIsFatal ==
    get_req.error \in {"GetChannelIgnored", "GetMessages"} =>
        /\ get_req.response = 500
        /\ get_req.error_code = "internal_server_error"
        /\ get_req.pc = "idle"
        /\ get_req.task = "idle"
        /\ get_req.stored_messages = <<>>
        /\ GetCalls \cap {"join", "touch_or_add_channel"} = {}

\* the fetch of a channel that has stored messages failed
C24_Witness ==
    /\ get_req.error = "GetMessages"
    /\ get_req.response = 500
    /\ StoredRows(user_login) # {}

\* C25: POST /purge answers 204 only when the purge succeeded, and 500 when
\* the storage purge failed.
C25_PurgeAnswer ==
    /\ purge_req.response = 204 => purge_req.result = "ok"
    /\ purge_req.result = "err" => purge_req.response = 500

\* the members of a sequence
Range(seq) == {seq[k] : k \in 1 .. Len(seq)}

\* the channels the DELETEs of the pass of partition p were issued for, in order
Issued(p) == [k \in 1 .. Len(metrics.passes[p].issued) |->
                 metrics.passes[p].issued[k].channel_login]

\* the pass of partition p is in its loop; the channels it has yet to visit
InLoop(p) == \E i \in 1 .. Len(vacuum_passes) :
                vacuum_passes[i].partition_id = p /\ vacuum_passes[i].pc = "loop"
Remaining(p) ==
    IF InLoop(p)
    THEN (CHOOSE pass \in Range(vacuum_passes) : pass.partition_id = p).channels
    ELSE <<>>

\* the channels listed at the start of a pass are listed once each; the
\* DELETEs issued so far and the channels yet to visit make up that list,
\* whether DELETEs failed or not
OneDeletePerChannel ==
    \A p \in 0 .. shard_dbs_len :
       LET selected == metrics.passes[p].selected
       IN  /\ Issued(p) \o Remaining(p) = selected
           /\ Cardinality(Range(selected)) = Len(selected)

\* a pass lists exactly the channels that have messages in its partition at
\* that time; a DELETE that fails goes on to the next channel and leaves the
\* stored and vacuumed counters as they were
FailedDeleteContinues ==
    \A p \in 0 .. shard_dbs_len :
          /\ (metrics.passes[p].selected = <<>> /\ metrics'.passes[p].selected # <<>>) =>
                Range(metrics'.passes[p].selected)
                   = {c \in Channels : ChannelRows(p, c) # {}}
          /\ (/\ Len(metrics'.passes[p].issued) = Len(metrics.passes[p].issued) + 1
              /\ metrics'.passes[p].issued[Len(metrics'.passes[p].issued)].result = "err") =>
                /\ metrics'.messages_stored = metrics.messages_stored
                /\ metrics'.messages_vacuumed = metrics.messages_vacuumed
                /\ message' = message
                /\ Remaining(p) # <<>>
                /\ Remaining(p)' = Tail(Remaining(p))

\* C26: a vacuum pass issues exactly one DELETE for each channel that had
\* messages in its partition when the pass listed them; after a DELETE that
\* fails it goes on with the remaining channels, and the failed DELETE leaves
\* the stored and vacuumed counters unchanged.
C26_VacuumPass == []OneDeletePerChannel /\ [][FailedDeleteContinues]_vars

\* a pass over two channels has ended; its first DELETE failed and its
\* second one deleted a message
C26_Witness ==
    \E p \in 0 .. shard_dbs_len :
       /\ ~InLoop(p)
       /\ Len(metrics.passes[p].issued) = 2
       /\ metrics.passes[p].issued[1].result = "err"
       /\ metrics.passes[p].issued[2].result = "ok"
       /\ metrics.messages_vacuumed[p] > 0

\* C27: a request under the timeout gets one response and no more: the
\* handler's, when the handler completes within request_timeout of the start
\* of the request, and otherwise RequestTimeout (408), with the timeout
\* counter incremented by one; a handler that has been answered for, either
\* way, makes no further progress.
C27_OneResponse ==
    /\ [](/\ Len(http_req.responses) <= 1
          /\ http_req.pc = "select" =>
                /\ http_req.responses = <<>>
                /\ http_request_timeouts = http_req.timeouts_before
                /\ now <= http_req.deadline
          /\ http_req.pc = "done" =>
                /\ Len(http_req.responses) = 1
                /\ IF http_req.completed_at # None
                   THEN /\ http_req.completed_at <= http_req.deadline
                        /\ http_req.awaits = HandlerAwaits
                        /\ http_req.responses[1] \in {200, 403, 500}
                        /\ http_request_timeouts = http_req.timeouts_before
                   ELSE /\ now >= http_req.deadline
                        /\ http_req.responses[1] = 408
                        /\ http_request_timeouts = http_req.timeouts_before + 1)
    /\ [][http_req.pc = "done" /\ http_req'.pc = "done" =>
             http_req' = http_req /\ http_request_timeouts' = http_request_timeouts]_vars

\* a request was answered 408 while its handler was at its second await,
\* after an earlier request had timed out too
C27_Witness ==
    /\ http_req.pc = "done"
    /\ http_req.responses = <<408>>
    /\ http_req.awaits = 1
    /\ http_request_timeouts = 2

\* the run states by name
Graceful == Shutdown(ShutdownNotice(TRUE))
Ungraceful == Shutdown(ShutdownNotice(FALSE))

\* the severity of a run state, spelt out
Severity(state) == CASE state = Run -> 0 [] state = Graceful -> 1 [] OTHER -> 2

\* C28: a call of next_shutdown_severity takes the run state from Run to the
\* graceful shutdown, from the graceful to the ungraceful one, and changes
\* nothing after that; the run state of the sender never becomes less
\* severe, and initiate_shutdown(true) after an ungraceful shutdown sends nothing.
C28_SeverityEscalates ==
    [][/\ Severity(run_state') >= Severity(run_state)
       /\ (/\ shutdown_sender'.calls = shutdown_sender.calls + 1
           /\ shutdown_sender'.last_call = "next_shutdown_severity") =>
             /\ run_state = Run => run_state' = Graceful
             /\ run_state = Graceful => run_state' = Ungraceful
             /\ run_state = Ungraceful =>
                   run_state' = Ungraceful /\ shutdown_sender'.sent = shutdown_sender.sent
       /\ (/\ shutdown_sender'.calls = shutdown_sender.calls + 1
           /\ shutdown_sender'.last_call = "initiate_shutdown"
           /\ run_state = Ungraceful) =>
             run_state' = Ungraceful /\ shutdown_sender'.sent = shutdown_sender.sent
       /\ run_state' # run_state =>
             /\ shutdown_sender'.sent = Append(shutdown_sender.sent, run_state')
             /\ shutdown_receiver'.changed]_vars

\* three calls were made: two escalated the shutdown and the last one, made
\* in the ungraceful shutdown, sent nothing
C28_Witness ==
    /\ shutdown_sender.calls = 3
    /\ shutdown_sender.sent = <<Graceful, Ungraceful>>
    /\ run_state = Ungraceful

\* the reverse of an Ordering
Reversed(ordering) ==
    CASE ordering = "Less" -> "Greater" [] ordering = "Greater" -> "Less" [] OTHER -> "Equal"

\* the place of a run state or notice in the order claimed
Place(type, value) ==
    IF type = "RunState" THEN Severity(value) ELSE IF value.graceful THEN 0 ELSE 1

\* C29: cmp orders the run states Run < Shutdown(graceful) <
\* Shutdown(ungraceful) and the notices graceful < ungraceful: it returns
\* Equal for equal values only, cmp(a, b) is the reverse of cmp(b, a), and
\* the order is transitive.
C29_TotalOrder ==
    compared # NotCompared =>
        /\ compared.ab = (IF Place(compared.type, compared.a) < Place(compared.type, compared.b)
                          THEN "Less"
                          ELSE IF compared.a = compared.b THEN "Equal" ELSE "Greater")
        /\ (compared.ab = "Equal") <=> (compared.a = compared.b)
        /\ compared.ab = Reversed(compared.ba)
        /\ (compared.ab = "Less" /\ compared.bc = "Less") => compared.ac = "Less"
        /\ (compared.ab # "Greater" /\ compared.bc # "Greater") => compared.ac # "Greater"

\* Run, the graceful and the ungraceful shutdown were compared, in that order
C29_Witness ==
    /\ compared # NotCompared
    /\ compared.type = "RunState"
    /\ compared.a = Run /\ compared.b = Graceful /\ compared.c = Ungraceful
    /\ compared.ab = "Less" /\ compared.bc = "Less" /\ compared.ac = "Less"

\* the calls of the Twitch API the request under with_authorization has made
Upstream == auth_req.upstream
UpstreamCall(call, result) == [call |-> call, result |-> result]
LastUpstream == Upstream[Len(Upstream)]

\* the probe, then at most one refresh, then the one retried probe
OneRefreshAndRetry ==
    /\ Len(Upstream) <= 3
    /\ Len(Upstream) >= 1 =>
         /\ Upstream[1].call = "query_user"
         /\ now - auth_req.pre_validation_auth.twitch_authorization_last_validated
              > recheck_twitch_auth_after
    /\ Len(Upstream) = 1 /\ Upstream[1].result = 401 => auth_req.pc = "refresh_token"
    /\ Len(Upstream) >= 2 =>
         /\ Upstream[1] = UpstreamCall("query_user", 401)
         /\ Upstream[2].call = "refresh_token"
    /\ Len(Upstream) = 2 /\ Upstream[2].result = 200 => auth_req.pc = "query_user"
    /\ Len(Upstream) = 3 =>
         /\ Upstream[2] = UpstreamCall("refresh_token", 200)
         /\ Upstream[3].call = "query_user"
         /\ auth_req.pc \in {"validated", "idle"}

\* a refused refresh or a refused retry ends the request with Unauthorized
RefusedIsUnauthorized ==
    (/\ Upstream # <<>>
     /\ \/ LastUpstream = UpstreamCall("refresh_token", 400)
        \/ Len(Upstream) = 3 /\ LastUpstream.result = 401)
    => /\ auth_req.pc = "idle"
       /\ auth_req.error = "Unauthorized"
       /\ auth_req.response = 401
       /\ auth_req.error_code = "unauthorized"
       /\ ~auth_req.next_ran

\* the authorization of the request has a new time only after a probe succeeded
ValidatedByProbe ==
    auth_req.authorization.twitch_authorization_last_validated
        # auth_req.pre_validation_auth.twitch_authorization_last_validated
    => /\ Upstream # <<>>
       /\ LastUpstream = UpstreamCall("query_user", 200)

\* the stored time moves forward, and only to that of a request whose probe
\* succeeded
StoredTimeAdvances ==
    user_authorization'.twitch_authorization_last_validated
        # user_authorization.twitch_authorization_last_validated
    => /\ auth_req.pc = "validated"
       /\ LastUpstream = UpstreamCall("query_user", 200)
       /\ user_authorization'.twitch_authorization_last_validated
            > user_authorization.twitch_authorization_last_validated
       /\ auth_req'.next_ran

\* C30: a validation made after recheck_twitch_auth_after has elapsed calls
\* the probe; a 401 from it is followed by at most one refresh, and a
\* successful refresh by exactly one retried probe; a 400 from the refresh or
\* a 401 from the retried probe ends the request with Unauthorized; and
\* twitch_authorization_last_validated, in the request and in the table,
\* advances only when a probe succeeded.
C30_AuthValidation ==
    /\ [](OneRefreshAndRetry /\ RefusedIsUnauthorized /\ ValidatedByProbe)
    /\ [][StoredTimeAdvances]_vars

\* a request whose probe got 401, whose refresh succeeded and whose retried
\* probe succeeded has stored the new token and the new validation time
C30_Witness ==
    /\ auth_req.pc = "idle"
    /\ auth_req.next_ran
    /\ Upstream = <<UpstreamCall("query_user", 401), UpstreamCall("refresh_token", 200),
                    UpstreamCall("query_user", 200)>>
    /\ user_authorization.twitch_token = 1
    /\ user_authorization.twitch_authorization_last_validated > recheck_twitch_auth_after

\* the extend and the revoke request of the token
ExtendReq == token_req["extend"]
RevokeReq == token_req["revoke"]

\* C31: extend sets valid_until to now + sessions_expire_after; after a
\* revoke every lookup of the token finds nothing and no extend brings the
\* row back; and an extend and a revoke that overlap never both report
\* success.
C31_ExtendRevoke ==
    /\ [](~(/\ ExtendReq.overlaps /\ RevokeReq.overlaps
            /\ ExtendReq.response = 200 /\ RevokeReq.response = 204))
    /\ [][/\ (ExtendReq'.response = 200 /\ ExtendReq.pc = "handler") =>
                ExtendReq'.authorization.valid_until = now + sessions_expire_after
          /\ user_authorization = NoUserAuthorization =>
                /\ user_authorization' = NoUserAuthorization
                /\ \A op \in TokenOps :
                      token_req[op].pc = "get_user_authorization" =>
                         token_req'[op].pc \in {"get_user_authorization", "idle"}]_vars

\* the parts of C31 that hold: the expiry of an extend, and the row of a
\* revoked token stays deleted and is not found
C31_RevokedStaysRevoked ==
    [][/\ (ExtendReq'.response = 200 /\ ExtendReq.pc = "handler") =>
             ExtendReq'.authorization.valid_until = now + sessions_expire_after
       /\ user_authorization = NoUserAuthorization =>
             /\ user_authorization' = NoUserAuthorization
             /\ \A op \in TokenOps :
                   token_req[op].pc = "get_user_authorization" =>
                      token_req'[op].pc \in {"get_user_authorization", "idle"}]_vars

\* an extend answered 200 for a token whose row the revoke had deleted
C31_ExtendOfRevokedToken ==
    /\ ExtendReq.response = 200
    /\ ExtendReq.rows = 0
    /\ RevokeReq.response = 204
    /\ RevokeReq.rows = 1
    /\ user_authorization = NoUserAuthorization

\* C32: the chunk worker hands the chunk it drained to append_messages
\* before it sleeps: when it goes to sleep after a chunk that was not full,
\* it holds no message that has no INSERT task yet; after a full chunk it
\* does not sleep.
C32_HandThenSleep ==
    [][chunk_worker.pc = "drain" /\ chunk_worker' # chunk_worker =>
          IF Len(Take(rx, max_chunk_size)) < max_chunk_size
          THEN /\ chunk_worker'.pc = "sleep"
               /\ \/ chunk_worker'.chunk = <<>>
                  \/ append_messages(chunk_worker'.chunk) \subseteq insert_tasks'
          ELSE chunk_worker'.pc = "drain"]_vars

\* what the chunk worker does: a chunk that is not full is kept during the
\* one sleep and handed to append_messages after it
C32_SleepThenHand ==
    [][/\ (chunk_worker.pc = "drain" /\ chunk_worker' # chunk_worker
              /\ Len(Take(rx, max_chunk_size)) < max_chunk_size) =>
             /\ chunk_worker' = [pc |-> "sleep", chunk |-> Take(rx, max_chunk_size)]
             /\ insert_tasks' = insert_tasks
       /\ (chunk_worker.pc = "sleep" /\ chunk_worker' # chunk_worker) =>
             /\ chunk_worker'.pc = "drain"
             /\ chunk_worker.chunk # <<>> =>
                   append_messages(chunk_worker.chunk) \subseteq insert_tasks']_vars

\* C33: get_recent_messages answers 200 with the messages it fetched whether
\* or not the channel is joined; its error_code is channel_not_joined exactly
\* when the channel was not both wanted and joined at its probe, and empty
\* when it was; the re-check of the spawned task does not change the answer.
C33_NotJoinedCode ==
    [][/\ (get_req.pc = "is_join_confirmed" /\ get_req'.pc = "idle") =>
             /\ get_req'.response = 200
             /\ get_req'.error = ""
             /\ get_req'.stored_messages = get_req.stored_messages
             /\ (user_login \in wanted /\ user_login \in joined)
                   => get_req'.error_code = ""
             /\ ~(user_login \in wanted /\ user_login \in joined)
                   => get_req'.error_code = "channel_not_joined"
       /\ (get_req.pc = "idle" /\ get_req'.pc = "idle") =>
             /\ get_req'.response = get_req.response
             /\ get_req'.error_code = get_req.error_code
             /\ get_req'.stored_messages = get_req.stored_messages]_vars

\* a request was answered with messages and channel_not_joined, and the
\* re-check of its task then found the channel joined
C33_Witness ==
    /\ get_req.response = 200
    /\ get_req.error_code = "channel_not_joined"
    /\ get_req.stored_messages # <<>>
    /\ get_req.is_confirmed_joined
    /\ get_req.task = "touch_or_add_channel"

\* the calls of touch_or_add_channel the request has made
Touches == SelectSeq(get_req.log, LAMBDA call : call = "touch_or_add_channel")

\* the step is the call of touch_or_add_channel of the spawned task
Touching == get_req.task = "touch_or_add_channel" /\ get_req'.task # get_req.task

\* C34: a request calls touch_or_add_channel at most once, and only after
\* the channel was found wanted and joined, at the probe of the handler or
\* at the re-check of the task; the call creates the row if there is none,
\* sets last_access to now only if it is more than 30 minutes old, and
\* leaves ignored_at and the rows of other channels alone.
C34_TouchOnceWhenJoined ==
    /\ [](/\ Len(Touches) <= 1
          /\ get_req.task = "touch_or_add_channel" =>
                get_req.is_confirmed_joined /\ Touches = <<>>)
    /\ [][/\ (get_req'.task = "touch_or_add_channel" /\ get_req.task # get_req'.task) =>
                \/ get_req.task = "join_if_needed" /\ get_req.error_code = ""
                \/ /\ get_req.task = "sleep"
                   /\ user_login \in wanted /\ user_login \in joined
          /\ Touching =>
                LET old == channel[user_login]
                    new == channel'[user_login]
                IN  /\ \A c \in Channels \ {user_login} : channel'[c] = channel[c]
                    /\ new.ignored_at = old.ignored_at
                    /\ new = old \/ new.last_access = now
                    /\ new.present = old.present \/ new.present
                    /\ (old.present /\ new # old) =>
                          now - old.last_access > touch_after]_vars

\* a row that was 30 minutes old at the start and has been ignored since the
\* request passed its check was touched a tick later: last_access is renewed,
\* ignored_at is kept
C34_Witness ==
    /\ Touches # <<>>
    /\ now > 0
    /\ channel[user_login].last_access = now
    /\ channel[user_login].ignored_at # None
    /\ channel[user_login].ignored_at < now

\* C35: no two vacuum passes of one partition are in progress at a time.
C35_OnePassPerPartition ==
    \A i, j \in 1 .. Len(vacuum_passes) :
       i # j => vacuum_passes[i].partition_id # vacuum_passes[j].partition_id

\* two passes of one partition are in their loop of DELETEs, over the same
\* channel
C35_TwoPassesDelete ==
    \E i, j \in 1 .. Len(vacuum_passes) :
       /\ i < j
       /\ vacuum_passes[i].partition_id = vacuum_passes[j].partition_id
       /\ vacuum_passes[i].pc = "loop" /\ vacuum_passes[j].pc = "loop"
       /\ Head(vacuum_passes[i].channels) = Head(vacuum_passes[j].channels)

\* the places that hold the message with source s: positions of the internal
\* queue and of the chunk, INSERT tasks and their positions, rows of partitions
Holders(s) ==
    {<<"rx", 0, i>> : i \in {i \in 1 .. Len(rx) : rx[i].message_source = s}}
    \cup {<<"chunk", 0, i>> :
            i \in {i \in 1 .. Len(chunk_worker.chunk) :
                      chunk_worker.chunk[i].message_source = s}}
    \cup UNION {{<<"task", task, i>> :
                   i \in {i \in 1 .. Len(task.messages) :
                             task.messages[i].message_source = s}} :
                task \in insert_tasks}
    \cup UNION {{<<"row", p, r>> :
                   r \in {r \in message[p] : r.message_source = s}} :
                p \in Partitions}

\* the message with source s was in an INSERT that failed
Dropped(s) == s \in 1 .. next_source /\ Holders(s) = {}

\* a received message is in one place at most, and from the hand-over on in
\* its channel's partition
OncePerMessage ==
    /\ \A s \in 1 .. next_source : Cardinality(Holders(s)) <= 1
    /\ \A task \in insert_tasks : \A m \in Elements(task.messages) :
          channel_to_partition_id(m.channel_login) = task.partition_id
    /\ \A p \in Partitions : \A r \in message[p] :
          channel_to_partition_id(r.channel_login) = p

\* what leaves the queue is in the chunk or in a task, what leaves the chunk
\* is in a task
NeverLostInQueue ==
    /\ \A m \in Elements(rx) \ Elements(rx') :
          \/ m \in Elements(chunk_worker'.chunk)
          \/ \E task \in insert_tasks' : m \in Elements(task.messages)
    /\ \A m \in Elements(chunk_worker.chunk) \ Elements(chunk_worker'.chunk) :
          \E task \in insert_tasks' : m \in Elements(task.messages)

\* a task that ends has stored all its messages or none, in its partition,
\* and leaves every other task and every other partition as they were
InsertOrDrop ==
    \A task \in insert_tasks \ insert_tasks' :
       /\ insert_tasks' = insert_tasks \ {task}
       /\ \A p \in Partitions \ {task.partition_id} : message'[p] = message[p]
       /\ \/ message'[task.partition_id] =
                message[task.partition_id] \cup Elements(task.messages)
          \/ /\ message' = message
             /\ \A m \in Elements(task.messages) : Dropped(m.message_source)'

\* C36: without cancellation every message received is in one place at most
\* on its way (queue, chunk, one INSERT task, one row of its channel's
\* partition), moves from the queue into one chunk and one INSERT task, and
\* the task stores it or, failing, drops its messages for good and leaves the
\* other tasks and partitions alone.
C36_ExactlyOneInsert ==
    /\ []OncePerMessage
    /\ [][NeverLostInQueue /\ InsertOrDrop]_vars
    /\ [][\A s \in 1 .. next_source : Dropped(s) => Dropped(s)']_vars

\* an INSERT failed and dropped a message, and a later message is stored
C36_Witness ==
    \E s \in 1 .. next_source :
       /\ Dropped(s)
       /\ \E p \in Partitions : \E r \in message[p] : r.message_source > s

\* POST /ignored with ignored=true for the user's channel has been answered
\* and the channel is still ignored
IgnoreCompleted ==
    /\ ignore_req.pc = "idle"
    /\ ignore_req.should_be_ignored
    /\ ignore_req.response = 204
    /\ is_channel_ignored(user_login)

\* C37: from the answer to POST /ignored with ignored=true on, and while the
\* channel is ignored, no step requests a JOIN for the channel and no step
\* runs touch_or_add_channel for it.
C37_NoJoinNoTouchWhileIgnored ==
    [][IgnoreCompleted =>
          /\ ~(user_login \notin wanted /\ user_login \in wanted')
          /\ ~(get_req.task = "touch_or_add_channel" /\ get_req'.task = "idle")]_vars

\* the task of a GET that passed its ignored check before the flag was set is
\* about to request the JOIN after the POST was answered
C37_LateJoin ==
    /\ IgnoreCompleted
    /\ get_req.task = "join_if_needed"
    /\ user_login \notin wanted

\* the task of such a GET is about to touch the row of the ignored channel
C37_LateTouch ==
    /\ IgnoreCompleted
    /\ get_req.task = "touch_or_add_channel"

\* the receivers there are
Receivers ==
    {shutdown_receiver} \cup (IF cloned_receiver.cloned THEN {cloned_receiver} ELSE {})

\* the notices a receiver can have returned: none, one, or the graceful and
\* then the ungraceful
IncreasingNotices ==
    {<<>>, <<ShutdownNotice(TRUE)>>, <<ShutdownNotice(FALSE)>>,
     <<ShutdownNotice(TRUE), ShutdownNotice(FALSE)>>}

\* after the ungraceful notice a receiver has no more notices, before it it may
NoMoreAfterUltimate ==
    \A receiver \in Receivers :
       /\ receiver.returned \in IncreasingNotices
       /\ receiver.last_returned_value =
             (IF receiver.returned = <<>> THEN NoNotice
              ELSE receiver.returned[Len(receiver.returned)])
       /\ may_have_more_notices(receiver.last_returned_value)
             <=> (receiver.last_returned_value # ShutdownNotice(FALSE))

\* a receiver that has returned the ungraceful notice returns nothing again
UltimateIsLast ==
    /\ shutdown_receiver.last_returned_value = ShutdownNotice(FALSE) =>
          shutdown_receiver'.returned = shutdown_receiver.returned
    /\ cloned_receiver.last_returned_value = ShutdownNotice(FALSE) =>
          cloned_receiver'.returned = cloned_receiver.returned

\* C38: the notices a receiver returns strictly increase in severity (the
\* graceful, then the ungraceful; two at most; never Run); a receiver that
\* returned the ungraceful notice may have no more notices and returns none;
\* a receiver whose sender is dropped gets the ungraceful notice.
C38_NoticesIncrease ==
    /\ []NoMoreAfterUltimate
    /\ [][UltimateIsLast]_vars
    /\ shutdown_sender.dropped ~>
          (\A receiver \in Receivers :
              receiver.last_returned_value = ShutdownNotice(FALSE))

\* a receiver has returned the graceful notice and then, the sender dropped
\* without an ungraceful shutdown, the ungraceful one
C38_Witness ==
    /\ shutdown_receiver.returned = <<ShutdownNotice(TRUE), ShutdownNotice(FALSE)>>
    /\ shutdown_sender.dropped
    /\ run_state = Shutdown(ShutdownNotice(TRUE))

\* C39: once a shutdown has been initiated, the receiver, awaiting
\* next_shutdown_notice, comes to have returned a notice, and so does a clone
\* of it, whenever it was cloned.
C39_EveryReceiverNotified ==
    /\ (run_state # Run) ~> (shutdown_receiver.returned # <<>>)
    /\ (run_state # Run /\ cloned_receiver.cloned) ~> (cloned_receiver.returned # <<>>)

\* the part of C39 that holds: the receiver of new_pair is notified
C39_FirstReceiverNotified ==
    (run_state # Run) ~> (shutdown_receiver.returned # <<>>)

\* a clone made after the receiver had returned the notice: nothing is unread
\* for it, and it has returned nothing
C39_ClonedAfterNotice ==
    /\ run_state # Run
    /\ shutdown_receiver.returned # <<>>
    /\ cloned_receiver.cloned
    /\ ~cloned_receiver.changed
    /\ cloned_receiver.returned = <<>>
    /\ ~shutdown_sender.dropped

\* main has joined both tasks
BothTasksJoined ==
    /\ main_loop.process_monitoring = "terminated"
    /\ main_loop.webserver = "terminated"

\* main, told of the end of a task before any interrupt, cancels the shared
\* signal and sets exit_code to 1
CancelsOnUnrequestedEnd ==
    (/\ main_loop.ctrl_c_event # "terminated"
     /\ \/ Ready(main_loop.process_monitoring)
              /\ main_loop'.process_monitoring = "terminated"
        \/ Ready(main_loop.webserver) /\ main_loop'.webserver = "terminated") =>
       /\ shutdown_signal'
       /\ main_loop'.exit_code = 1

\* the process has not exited while a task runs or is not yet joined
ExitsAfterTasks == main_loop.exited # None => BothTasksJoined

\* both tasks have ended normally after the interrupt, none with an error
EndedNormallyAfterSignal ==
    /\ main_loop.ctrl_c_event = "terminated"
    /\ main_loop.exit_code = 0
    /\ main_loop.process_monitoring \in {"Ok", "terminated"}
    /\ main_loop.webserver \in {"Ok", "terminated"}

\* C40: a task ending with no shutdown requested makes main cancel the shared
\* signal and the process exit with code 1 once both tasks have ended, with
\* no interrupt needed; after an interrupt and the normal end of both tasks
\* the process exits with code 0; it never exits while one of the tasks runs.
C40_MainExits ==
    /\ []ExitsAfterTasks
    /\ [][CancelsOnUnrequestedEnd]_vars
    /\ (main_loop.exit_code = 1) ~> (main_loop.exited = 1)
    /\ EndedNormallyAfterSignal ~> (main_loop.exited = 0)

\* the parts of C40 that hold: the cancellation, the exit after both tasks,
\* code 0 after an interrupt and two normal ends
C40_ExitAfterSignal ==
    /\ []ExitsAfterTasks
    /\ [][CancelsOnUnrequestedEnd]_vars
    /\ EndedNormallyAfterSignal ~> (main_loop.exited = 0)

\* both tasks have ended and are joined, exit_code is 1, and main waits in
\* its select! for the interrupt
C40_WaitsForSignal ==
    /\ BothTasksJoined
    /\ main_loop.exit_code = 1
    /\ main_loop.ctrl_c_event = "pending"
    /\ main_loop.exited = None
    /\ shutdown_signal
    /\ \A task \in TaskNames : tasks[task] = "exited"

=============================================================================
